---- MODULE Spec2Model ----
(***************************************************************************)
(* The geometry mapper (lib/glyph-geometry.ts) and the contribution table  *)
(* (data/mappings/invariantPentadicMap.ts) of l1-geometry-viz.             *)
(*                                                                         *)
(* Numbers.  The code computes on JavaScript numbers.  Here a number is a  *)
(* fixed-point integer:                                                    *)
(*   - a profile field, a configuration value or a literal of the code is  *)
(*     held in hundredths (One = 100 stands for 1.0);                      *)
(*   - the product of two such numbers is held in ten-thousandths          *)
(*     (Sq = One * One stands for 1.0); height, width, fillOpacity,        *)
(*     glowBlur, glowSpread, glowOpacity and the area are such products.   *)
(* All inputs are multiples of 0.01, so every sum, product and comparison  *)
(* below is exact; the rounding error of IEEE doubles (at most one unit in *)
(* the last place per operation) is not represented.                       *)
(***************************************************************************)
EXTENDS Integers, Sequences, FiniteSets, TLC

VARIABLES
    fn,      \* the exported function under call
    args,    \* its arguments, a record
    pc,      \* "call": about to run, "return": has returned
    result,  \* the returned value (meaningful when pc = "return")
    moduleConfig,  \* the content of glyph-geometry's module-level defaultConfig
    first,   \* the result of the first of two equal calls
    \* The generators of data/synthetic, which run when their module loads:
    genpc,       \* "systems": inside generateSystemAlpha/Beta/Gamma,
                 \* "timeSeries": inside generateTimeSeries, "returned", "idle"
    system,      \* "alpha", "beta" or "gamma"
    genSubscore, \* position of the subscore in its registry (0: none)
    genDay,      \* the loop counter (day, or i of generateTimeSeries)
    pentadicLiteral,    \* the pentadic literal of this iteration, as far as evaluated
    invariantsLiteral,  \* the invariants literal of this iteration, as far as evaluated
    lengths,     \* the lengths of pentadicSeries, invariantSeries and series
    pushed,      \* the value generateTimeSeries pushed last
    returned,    \* what the generator returned, the series left out
    \* The state of App and of PlaybackControls:
    selectedSystemId, currentDay, isPlaying, viewMode,
    selectedDimension, selectedInvariant,
    timelineMode,
    comparisonDayA, comparisonDayB,  \* JavaScript numbers: see Number and NaN
    speed,       \* PlaybackControls' speed, in hundredths
    timers,      \* the intervals installed and not cleared
    lastEvent    \* the handler or callback that ran last

callVars == <<fn, args, pc, result, moduleConfig, first>>
genVars == <<genpc, system, genSubscore, genDay, pentadicLiteral, invariantsLiteral, lengths, pushed, returned>>
appVars ==
    <<selectedSystemId, currentDay, isPlaying, viewMode, selectedDimension,
      selectedInvariant, timelineMode, comparisonDayA, comparisonDayB, speed,
      timers, lastEvent>>
vars == <<callVars, genVars, appVars>>

\* The variables the calls of the geometry mapper leave alone.
otherThanCalls == <<genVars, appVars>>

---------------------------------------------------------------------------
(* Fixed-point representation *)

One == 100
Sq == One * One

\* Math.round(n / d) for d > 0: the nearest integer, halves towards +Infinity.
Round(n, d) == (2 * n + d) \div (2 * d)

---------------------------------------------------------------------------
(* Bounds of the inputs *)

\* Number of equal subdivisions of [0,1] the profile fields are drawn from.
GridSteps == 20
\* Number of out-of-domain values tried on each side of [0,1], 0.5 apart.
MaxOver == 1

FieldGrid == {(k * One) \div GridSteps : k \in 0..GridSteps}
OverValues == {0 - (k * One) \div 2 : k \in 1..MaxOver}
                \cup {One + (k * One) \div 2 : k \in 1..MaxOver}
FieldValues == FieldGrid \cup OverValues

---------------------------------------------------------------------------
(* PentadicProfile *)

ProfileFields == {"u", "severity", "scope", "correlation", "containment"}

\* The end-to-end scenario profile of the specification.
Scenario ==
    [u |-> 25, severity |-> 20, scope |-> 40, correlation |-> 15, containment |-> 85]

Uniform(v) == [f \in ProfileFields |-> v]

\* Every profile that differs from the scenario profile in at most two
\* fields, and every profile with five equal fields.
Profiles ==
    {[[Scenario EXCEPT ![f1] = v1] EXCEPT ![f2] = v2] :
        <<f1, f2>> \in ProfileFields \X ProfileFields,
        <<v1, v2>> \in FieldValues \X FieldValues}
    \cup {Uniform(v) : v \in FieldValues}

---------------------------------------------------------------------------
(* GlyphConfig *)

\* Mutant: another default for the largest glow blur.
defaultConfig_SmallBlur ==
    [maxHeight |-> 160 * One, minHeight |-> 40 * One,
     maxWidth |-> 120 * One, minWidth |-> 30 * One,
     maxGlowBlur |-> 20 * One, pulseThreshold |-> 60]

defaultConfig ==
    [maxHeight |-> 160 * One, minHeight |-> 40 * One,
     maxWidth |-> 120 * One, minWidth |-> 30 * One,
     maxGlowBlur |-> 30 * One, pulseThreshold |-> 60]

\* config = {} : the default value of the parameter.
EmptyConfig == [k \in {} |-> 0]

\* The configuration MiniGlyph passes to RiskGlyph for a glyph of `size` px.
MiniGlyphConfig(size) ==
    [maxHeight |-> size * One, minHeight |-> size * 25,
     maxWidth |-> size * 75, minWidth |-> size * 20,
     maxGlowBlur |-> size * 30, pulseThreshold |-> 70]

\* MiniGlyph's default size, and the filmstrip's Math.min(32, height - 20).
GlyphSizes == {24, 32}

GlyphConfigs == {EmptyConfig} \cup {MiniGlyphConfig(s) : s \in GlyphSizes}

\* { ...a, ...b } : b's own keys override a's.
Spread(a, b) ==
    [k \in DOMAIN a \cup DOMAIN b |-> IF k \in DOMAIN b THEN b[k] ELSE a[k]]

---------------------------------------------------------------------------
(* CSS colour strings: `rgb(r, g, b)` and `rgba(r, g, b, a)` *)

Rgb(r, g, b) == [css |-> "rgb", r |-> r, g |-> g, b |-> b]
Rgba(r, g, b, a) == [css |-> "rgba", r |-> r, g |-> g, b |-> b, a |-> a]

\* Mutant: the green channel spans 90 - 53 instead of 90 - 31.
interpolateContainmentColor_WrongSpan(containment) ==
    LET r == Round(15 * One + containment * (45 - 15), One)
        g == Round(31 * One + containment * (90 - 53), One)
        b == Round(53 * One + containment * (135 - 53), One)
    IN  Rgb(r, g, b)

interpolateContainmentColor(containment) ==
    LET r == Round(15 * One + containment * (45 - 15), One)
        g == Round(31 * One + containment * (90 - 31), One)
        b == Round(53 * One + containment * (135 - 53), One)
    IN  Rgb(r, g, b)

\* Mutant: 0.3 itself still falls in the first segment.
interpolateGlowColor_InclusiveLow(correlation) ==
    IF correlation <= 30
    THEN Rgba(212, 165, 116, correlation * 2)
    ELSE IF correlation < 70
    THEN LET tn == correlation - 30
             td == 40
             r == Round(212 * td + tn * (224 - 212), td)
             g == Round(165 * td - tn * (165 - 112), td)
             b == Round(116 * td - tn * (116 - 32), td)
         IN  Rgb(r, g, b)
    ELSE LET tn == correlation - 70
             td == 30
             r == Round(224 * td - tn * (224 - 192), td)
             g == Round(112 * td - tn * (112 - 64), td)
             b == 32
         IN  Rgb(r, g, b)

interpolateGlowColor(correlation) ==
    IF correlation < 30
    THEN Rgba(212, 165, 116, correlation * 2)
    ELSE IF correlation < 70
    THEN \* t = (correlation - 0.3) / 0.4
         LET tn == correlation - 30
             td == 40
             r == Round(212 * td + tn * (224 - 212), td)
             g == Round(165 * td - tn * (165 - 112), td)
             b == Round(116 * td - tn * (116 - 32), td)
         IN  Rgb(r, g, b)
    ELSE \* t = (correlation - 0.7) / 0.3
         LET tn == correlation - 70
             td == 30
             r == Round(224 * td - tn * (224 - 192), td)
             g == Round(112 * td - tn * (112 - 64), td)
             b == 32
         IN  Rgb(r, g, b)

---------------------------------------------------------------------------
(* computeGlyphGeometry *)

\* Mutant: scales by maxHeight instead of the span maxHeight - minHeight.
glyphHeight_FullSpan(profile, cfg) ==
    cfg.minHeight * One + profile.severity * cfg.maxHeight

glyphHeight(profile, cfg) ==
    cfg.minHeight * One + profile.severity * (cfg.maxHeight - cfg.minHeight)

glyphWidth(profile, cfg) ==
    cfg.minWidth * One + profile.scope * (cfg.maxWidth - cfg.minWidth)

\* Mutant: the fill thins out as containment grows.
glyphFillOpacity_Inverted(profile) == 90 * One - profile.containment * 70

glyphFillOpacity(profile) == 20 * One + profile.containment * 70

glyphGlowBlur(profile, cfg) == profile.correlation * cfg.maxGlowBlur

\* Mutant: the spread shrinks as correlation grows.
glyphGlowSpread_Inverted(profile) == (One - profile.correlation) * (10 * One)

glyphGlowSpread(profile) == profile.correlation * (10 * One)

glyphGlowOpacity(profile) == profile.correlation * 80

\* Mutant: strict comparison.
glyphShouldPulse_Strict(profile, cfg) == profile.correlation > cfg.pulseThreshold

glyphShouldPulse(profile, cfg) == profile.correlation >= cfg.pulseThreshold

\* The body of computeGlyphGeometry, defaults being the content of the
\* module's defaultConfig object when the call is made.
geometryOver(defaults, profile, config) ==
    LET cfg == Spread(defaults, config)
    IN  [xPosition |-> profile.u,
         height |-> glyphHeight(profile, cfg),
         width |-> glyphWidth(profile, cfg),
         fillOpacity |-> glyphFillOpacity(profile),
         fillColor |-> interpolateContainmentColor(profile.containment),
         glowBlur |-> glyphGlowBlur(profile, cfg),
         glowSpread |-> glyphGlowSpread(profile),
         glowOpacity |-> glyphGlowOpacity(profile),
         glowColor |-> interpolateGlowColor(profile.correlation),
         shouldPulse |-> glyphShouldPulse(profile, cfg)]

computeGlyphGeometry(profile, config) == geometryOver(defaultConfig, profile, config)

\* Mutant: the configuration is merged into the default object
\* (Object.assign(defaultConfig, config)).
writesOfComputeGlyphGeometry_AssignDefaults(objects) ==
    [objects EXCEPT !.defaultConfig = Spread(objects.defaultConfig, objects.config)]

\* The objects a call can reach (the module's defaultConfig, the caller's
\* profile and config) as the call leaves them: { ...defaultConfig, ...config }
\* builds a new object, and no property of the three is assigned.
writesOfComputeGlyphGeometry(objects) == objects

---------------------------------------------------------------------------
(* computeGlyphArea, classifyGlyphShape *)

computeGlyphArea(profile) == profile.severity * profile.scope

\* severity / scope, kept as a fraction.  IEEE division: x / 0 is +Infinity
\* or -Infinity by the sign of x, 0 / 0 is NaN, and every comparison with
\* NaN is false.
aspectRatioOf(profile) == [num |-> profile.severity, den |-> profile.scope]

\* ratio > t and ratio < t, t in hundredths.
RatioGT(ratio, t) ==
    IF ratio.den > 0 THEN ratio.num * One > t * ratio.den
    ELSE IF ratio.den < 0 THEN ratio.num * One < t * ratio.den
    ELSE ratio.num > 0

RatioLT(ratio, t) ==
    IF ratio.den > 0 THEN ratio.num * One < t * ratio.den
    ELSE IF ratio.den < 0 THEN ratio.num * One > t * ratio.den
    ELSE ratio.num < 0

\* Mutant: the aspect-ratio tests come before the area tests.
classifyGlyphShape_RatioFirst(profile) ==
    LET aspectRatio == aspectRatioOf(profile)
        area == computeGlyphArea(profile)
    IN  IF RatioGT(aspectRatio, 150) THEN "tall-narrow"
        ELSE IF RatioLT(aspectRatio, 67) THEN "short-wide"
        ELSE IF area < 15 * One THEN "compact"
        ELSE IF area > 50 * One THEN "large"
        ELSE "square"

\* Mutant: the compact threshold is inclusive.
classifyGlyphShape_CompactInclusive(profile) ==
    LET aspectRatio == aspectRatioOf(profile)
        area == computeGlyphArea(profile)
    IN  IF area <= 15 * One THEN "compact"
        ELSE IF area > 50 * One THEN "large"
        ELSE IF RatioGT(aspectRatio, 150) THEN "tall-narrow"
        ELSE IF RatioLT(aspectRatio, 67) THEN "short-wide"
        ELSE "square"

\* Mutant: a zero scope is rejected before the division.
classifyGlyphShape_ZeroScopeThrows(profile) ==
    LET aspectRatio == aspectRatioOf(profile)
        area == computeGlyphArea(profile)
    IN  IF profile.scope = 0 THEN "RangeError"
        ELSE IF area < 15 * One THEN "compact"
        ELSE IF area > 50 * One THEN "large"
        ELSE IF RatioGT(aspectRatio, 150) THEN "tall-narrow"
        ELSE IF RatioLT(aspectRatio, 67) THEN "short-wide"
        ELSE "square"

classifyGlyphShape(profile) ==
    LET aspectRatio == aspectRatioOf(profile)
        area == computeGlyphArea(profile)
    IN  IF area < 15 * One THEN "compact"
        ELSE IF area > 50 * One THEN "large"
        ELSE IF RatioGT(aspectRatio, 150) THEN "tall-narrow"
        ELSE IF RatioLT(aspectRatio, 67) THEN "short-wide"
        ELSE "square"

---------------------------------------------------------------------------
(* Contribution table *)

Invariants ==
    {"redundancy", "connectivityDensity", "feedbackLatency", "regenerationRate",
     "dependencyConcentration"}

PentadicDimensions == {"uncertainty", "severity", "scope", "correlation", "containment"}

\* A property read: the value, or undefined when the key is absent.
Defined(v) == [defined |-> TRUE, value |-> v]
Undefined == [defined |-> FALSE]
Get(obj, key) == IF key \in DOMAIN obj THEN Defined(obj[key]) ELSE Undefined

\* Mutant: the key of the middle strength is misspelt.
contributionValues_Misspelt == [high |-> 80, medium |-> 50, low |-> 20]

contributionValues == [high |-> 80, moderate |-> 50, low |-> 20]

invariantPentadicMap ==
    [redundancy |->
        [uncertainty |-> "moderate", severity |-> "high", scope |-> "high",
         correlation |-> "low", containment |-> "high"],
     connectivityDensity |->
        [uncertainty |-> "high", severity |-> "moderate", scope |-> "high",
         correlation |-> "high", containment |-> "high"],
     feedbackLatency |->
        [uncertainty |-> "low", severity |-> "low", scope |-> "low",
         correlation |-> "low", containment |-> "high"],
     regenerationRate |->
        [uncertainty |-> "low", severity |-> "moderate", scope |-> "low",
         correlation |-> "low", containment |-> "high"],
     dependencyConcentration |->
        [uncertainty |-> "high", severity |-> "high", scope |-> "moderate",
         correlation |-> "high", containment |-> "high"]]

\* contributionValues[invariantPentadicMap[invariant][dimension]]
getContribution(invariant, dimension) ==
    LET strength == Get(invariantPentadicMap[invariant], dimension)
    IN  IF strength.defined THEN Get(contributionValues, strength.value) ELSE Undefined

---------------------------------------------------------------------------
(* Pathway aggregation of a subscore card *)

\* The longest list of secondary invariants enumerated.
MaxSecondary == 2

\* [subscore.primaryInvariant, ...(subscore.secondaryInvariants || [])]
allInvariants(subscore) ==
    <<subscore.primaryInvariant>> \o
        (IF subscore.secondaryInvariants.defined
         THEN subscore.secondaryInvariants.value
         ELSE <<>>)

\* Mutant: the strengths add up.
accumulate_Sum(current, strength) == current + strength

\* Math.max(result[dim], strength)
accumulate(current, strength) == IF strength > current THEN strength ELSE current

\* The loop over the invariants from position i on, result being the record
\* built so far.
RECURSIVE aggregateFrom(_, _, _)
aggregateFrom(invariants, i, acc) ==
    IF i > Len(invariants)
    THEN acc
    ELSE LET mapping == invariantPentadicMap[invariants[i]]
         IN  aggregateFrom(invariants, i + 1,
                 [dim \in PentadicDimensions |->
                     accumulate(acc[dim], contributionValues[mapping[dim]])])

aggregatedContributions(invariants) ==
    aggregateFrom(invariants, 1, [dim \in PentadicDimensions |-> 0])

---------------------------------------------------------------------------
(* Timeline: filmstrip sampling (components/timeline/Timeline.tsx) *)

Abs(x) == IF x < 0 THEN 0 - x ELSE x

\* The loop bound of every generator, and so the length of every series the
\* application displays: 90 days.
Days == 90

\* Lengths of the series besides the 90 days of the application.
MaxLength == 8

\* Math.round of the quotient num / den of two non-negative integers
\* (halves go up).  For every series length below 35 and for length 90 the
\* double i * step of the code rounds to the same integer as the exact
\* quotient i * (length - 1) / (sampleCount - 1).
MathRound(num, den) == Round(num, den)

\* sampleCount = 15
DefaultSampleCount == 15

\* The samples when the step is length / sampleCount.
sampleIndices_StepOverCount(length, sampleCount) ==
    [i \in 1..sampleCount |-> MathRound((i - 1) * length, sampleCount)]

\* indices[i + 1] is Math.round(i * step), step = (length - 1) / (sampleCount - 1).
sampleIndices(length, sampleCount) ==
    [i \in 1..sampleCount |-> MathRound((i - 1) * (length - 1), sampleCount - 1)]

\* reduce without an initial value: the accumulator starts as the first
\* sample and is replaced by a sample that is strictly nearer.
RECURSIVE nearestFrom(_, _, _, _)
nearestFrom(indices, i, nearest, selectedDay) ==
    IF i > Len(indices) THEN nearest
    ELSE nearestFrom(indices, i + 1,
                     IF Abs(indices[i] - selectedDay) < Abs(nearest - selectedDay)
                     THEN indices[i] ELSE nearest,
                     selectedDay)

nearestSampleIndex(indices, selectedDay) ==
    nearestFrom(indices, 2, indices[1], selectedDay)

\* What the filmstrip renders: one button per sample, isSelected per button.
FilmstripTimeline(length, indices, selectedDay) ==
    LET nearest == nearestSampleIndex(indices, selectedDay)
    IN  [sampleIndices |-> indices,
         nearestSampleIndex |-> nearest,
         isSelected |-> [j \in 1..Len(indices) |-> indices[j] = nearest]]

Timeline(length, sampleCount, selectedDay) ==
    FilmstripTimeline(length, sampleIndices(length, sampleCount), selectedDay)

---------------------------------------------------------------------------
(* The calls *)

SecondaryLists ==
    UNION {[1..n -> Invariants] : n \in 0..MaxSecondary}
PathwayCalls ==
    {[primaryInvariant |-> i, secondaryInvariants |-> s] :
        i \in Invariants, s \in {Undefined} \cup {Defined(l) : l \in SecondaryLists}}

GeometryCalls ==
    {[profile |-> p, config |-> c] : p \in Profiles, c \in GlyphConfigs}
ProfileCalls == {[profile |-> p] : p \in Profiles}
ContributionCalls ==
    {[invariant |-> i, dimension |-> d] : i \in Invariants, d \in PentadicDimensions}

\* interpolateGlowColor is called on every hundredth of [0,1] and on the
\* out-of-domain values.
GlowColorCalls == {[correlation |-> c] : c \in (0..One) \cup OverValues}

\* Sample counts tried on the 90-day series.
MaxSamples == 24

\* Filmstrip renders: the series of the application (90 days) with sample
\* counts up to MaxSamples, and short series with sample counts up to one
\* above the length; the selected day is a day of the series.
SampleCounts(length) == IF length = Days THEN 2..MaxSamples ELSE 2..(length + 1)

TimelineCalls ==
    UNION {{[length |-> n, sampleCount |-> k, selectedDay |-> d] :
               k \in SampleCounts(n), d \in 0..(n - 1)} :
           n \in (2..MaxLength) \cup {Days}}

Pending == [defined |-> FALSE]

\* No generator is running.
GenIdle ==
    /\ genpc = "idle" /\ system = "none" /\ genSubscore = 0 /\ genDay = 0
    /\ pentadicLiteral = <<>> /\ invariantsLiteral = <<>>
    /\ lengths = [pentadicSeries |-> 0, invariantSeries |-> 0, series |-> 0]
    /\ pushed = Pending /\ returned = Pending

\* A JavaScript number that is an integer, and NaN.
Number(n) == [nan |-> FALSE, value |-> n]
NaN == [nan |-> TRUE, value |-> 0]

\* App is not mounted.
AppIdle ==
    /\ selectedSystemId = "none" /\ currentDay = 0 /\ isPlaying = FALSE
    /\ viewMode = "none" /\ selectedDimension = "null" /\ selectedInvariant = "null"
    /\ timelineMode = "none"
    /\ comparisonDayA = Number(0) /\ comparisonDayB = Number(0)
    /\ speed = 0 /\ timers = {}
    /\ lastEvent = [name |-> "none", arg |-> "none", x |-> 0]

Init ==
    /\ GenIdle
    /\ AppIdle
    /\ pc = "call"
    /\ result = Pending
    /\ moduleConfig = defaultConfig
    /\ first = Pending
    /\ \/ fn = "computeGlyphGeometry" /\ args \in GeometryCalls
       \/ fn = "computeGlyphArea" /\ args \in ProfileCalls
       \/ fn = "classifyGlyphShape" /\ args \in ProfileCalls
       \/ fn = "getContribution" /\ args \in ContributionCalls
       \/ fn = "interpolateGlowColor" /\ args \in GlowColorCalls
       \/ fn = "PentadicPathway" /\ args \in PathwayCalls
       \/ fn = "Timeline" /\ args \in TimelineCalls

\* The objects a call of computeGlyphGeometry with this config can reach.
Reachable(config) ==
    [defaultConfig |-> moduleConfig, profile |-> args.profile, config |-> config]

CallComputeGlyphGeometry ==
    /\ pc = "call" /\ fn = "computeGlyphGeometry"
    /\ result' = geometryOver(moduleConfig, args.profile, args.config)
    /\ LET after == writesOfComputeGlyphGeometry(Reachable(args.config))
       IN  /\ moduleConfig' = after.defaultConfig
           /\ args' = [profile |-> after.profile, config |-> after.config]
    /\ pc' = "return"
    /\ UNCHANGED <<fn, first, otherThanCalls>>

CallComputeGlyphArea ==
    /\ pc = "call" /\ fn = "computeGlyphArea"
    /\ result' = computeGlyphArea(args.profile)
    /\ pc' = "return"
    /\ UNCHANGED <<fn, args, moduleConfig, first, otherThanCalls>>

CallClassifyGlyphShape ==
    /\ pc = "call" /\ fn = "classifyGlyphShape"
    /\ result' = classifyGlyphShape(args.profile)
    /\ pc' = "return"
    /\ UNCHANGED <<fn, args, moduleConfig, first, otherThanCalls>>

CallGetContribution ==
    /\ pc = "call" /\ fn = "getContribution"
    /\ result' = getContribution(args.invariant, args.dimension)
    /\ pc' = "return"
    /\ UNCHANGED <<fn, args, moduleConfig, first, otherThanCalls>>

CallInterpolateGlowColor ==
    /\ pc = "call" /\ fn = "interpolateGlowColor"
    /\ result' = interpolateGlowColor(args.correlation)
    /\ pc' = "return"
    /\ UNCHANGED <<fn, args, moduleConfig, first, otherThanCalls>>

CallPentadicPathway ==
    /\ pc = "call" /\ fn = "PentadicPathway"
    /\ result' = aggregatedContributions(allInvariants(args))
    /\ pc' = "return"
    /\ UNCHANGED <<fn, args, moduleConfig, first, otherThanCalls>>

CallTimeline ==
    /\ pc = "call" /\ fn = "Timeline"
    /\ result' = Timeline(args.length, args.sampleCount, args.selectedDay)
    /\ pc' = "return"
    /\ UNCHANGED <<fn, args, moduleConfig, first, otherThanCalls>>

Next ==
    \/ CallTimeline
    \/ CallPentadicPathway
    \/ CallInterpolateGlowColor
    \/ CallComputeGlyphGeometry
    \/ CallComputeGlyphArea
    \/ CallClassifyGlyphShape
    \/ CallGetContribution

Spec == Init /\ [][Next]_vars

---------------------------------------------------------------------------
(* Repeated calls *)

GeometryFunctions == {"computeGlyphGeometry", "computeGlyphArea", "classifyGlyphShape"}

\* After the first call has returned, the caller calls computeGlyphGeometry
\* on the same profile with some configuration and drops the result.
CallOther ==
    /\ pc = "return" /\ fn \in GeometryFunctions
    /\ \E config \in GlyphConfigs :
          LET after == writesOfComputeGlyphGeometry(Reachable(config))
          IN  /\ moduleConfig' = after.defaultConfig
              /\ args' = [args EXCEPT !.profile = after.profile]
              /\ first' = [defined |-> TRUE, value |-> result, between |-> config]
    /\ pc' = "between"
    /\ UNCHANGED <<fn, result, otherThanCalls>>

\* The first call is made once more, with the arguments it had.
CallAgain ==
    /\ pc = "between"
    /\ \/ /\ fn = "computeGlyphGeometry"
          /\ result' = geometryOver(moduleConfig, args.profile, args.config)
          /\ LET after == writesOfComputeGlyphGeometry(Reachable(args.config))
             IN  /\ moduleConfig' = after.defaultConfig
                 /\ args' = [profile |-> after.profile, config |-> after.config]
       \/ /\ fn = "computeGlyphArea"
          /\ result' = computeGlyphArea(args.profile)
          /\ UNCHANGED <<args, moduleConfig>>
       \/ /\ fn = "classifyGlyphShape"
          /\ result' = classifyGlyphShape(args.profile)
          /\ UNCHANGED <<args, moduleConfig>>
    /\ pc' = "again"
    /\ UNCHANGED <<fn, first, otherThanCalls>>

NextRepeated == Next \/ CallOther \/ CallAgain

SpecRepeated == Init /\ [][NextRepeated]_vars

---------------------------------------------------------------------------
(* Synthetic data: numbers (data/synthetic/systems.ts, subscores.ts) *)

(* The generators add exponentials and random noise to two-decimal        *)
(* literals.  Their values are held in millionths (Unit stands for 1.0);  *)
(* literals of the code stay in hundredths and are scaled where they      *)
(* enter a sum.  Every product and quotient is rounded to the nearest     *)
(* millionth.                                                             *)
Unit == 1000000

\* A literal of the code, in millionths.
Lit(h) == h * (Unit \div One)

\* x * h for x in millionths and a literal h.
Scaled(x, h) == Round(x * h, One)

\* Math.exp(-x / Unit) in millionths, for the arguments the generators pass.
expTable ==
    0 :> 1000000 @@ 40000 :> 960789 @@ 40541 :> 960270 @@ 80000 :> 923116 @@
    81081 :> 922119 @@ 120000 :> 886920 @@ 121622 :> 885483 @@ 150000 :> 860708 @@
    160000 :> 852144 @@ 162162 :> 850303 @@ 200000 :> 818731 @@ 202703 :> 816521 @@
    240000 :> 786628 @@ 243243 :> 784081 @@ 280000 :> 755784 @@ 283784 :> 752929 @@
    300000 :> 740818 @@ 320000 :> 726149 @@ 324324 :> 723016 @@ 360000 :> 697676 @@
    364865 :> 694290 @@ 400000 :> 670320 @@ 405405 :> 666707 @@ 440000 :> 644036 @@
    445946 :> 640218 @@ 450000 :> 637628 @@ 480000 :> 618783 @@ 486486 :> 614783 @@
    500000 :> 606531 @@ 520000 :> 594521 @@ 527027 :> 590357 @@ 560000 :> 571209 @@
    567568 :> 566902 @@ 600000 :> 548812 @@ 608108 :> 544380 @@ 625000 :> 535261 @@
    640000 :> 527292 @@ 648649 :> 522752 @@ 680000 :> 506617 @@ 689189 :> 501983 @@
    720000 :> 486752 @@ 729730 :> 482039 @@ 750000 :> 472367 @@ 760000 :> 467666 @@
    770270 :> 462888 @@ 800000 :> 449329 @@ 810811 :> 444497 @@ 840000 :> 431711 @@
    851351 :> 426838 @@ 880000 :> 414783 @@ 891892 :> 409880 @@ 900000 :> 406570 @@
    920000 :> 398519 @@ 932432 :> 393595 @@ 960000 :> 382893 @@ 972973 :> 377958 @@
    1000000 :> 367879 @@ 1013514 :> 362941 @@ 1040000 :> 353455 @@ 1050000 :> 349938 @@
    1054054 :> 348522 @@ 1080000 :> 339596 @@ 1094595 :> 334675 @@ 1120000 :> 326280 @@
    1135135 :> 321379 @@ 1160000 :> 313486 @@ 1175676 :> 308610 @@ 1200000 :> 301194 @@
    1216216 :> 296349 @@ 1240000 :> 289384 @@ 1250000 :> 286505 @@ 1256757 :> 284575 @@
    1280000 :> 278037 @@ 1297297 :> 273269 @@ 1320000 :> 267135 @@ 1337838 :> 262412 @@
    1350000 :> 259240 @@ 1360000 :> 256661 @@ 1378378 :> 251987 @@ 1400000 :> 246597 @@
    1418919 :> 241975 @@ 1440000 :> 236928 @@ 1459459 :> 232362 @@ 1480000 :> 227638 @@
    1500000 :> 223130 @@ 1520000 :> 218712 @@ 1540541 :> 214265 @@ 1560000 :> 210136 @@
    1581081 :> 205753 @@ 1600000 :> 201897 @@ 1621622 :> 197578 @@ 1640000 :> 193980 @@
    1650000 :> 192050 @@ 1662162 :> 189728 @@ 1680000 :> 186374 @@ 1702703 :> 182190 @@
    1720000 :> 179066 @@ 1743243 :> 174952 @@ 1760000 :> 172045 @@ 1783784 :> 168001 @@
    1800000 :> 165299 @@ 1824324 :> 161327 @@ 1840000 :> 158817 @@ 1864865 :> 154917 @@
    1875000 :> 153355 @@ 1880000 :> 152590 @@ 1905405 :> 148762 @@ 1920000 :> 146607 @@
    1945946 :> 142852 @@ 1960000 :> 140858 @@ 1986486 :> 137177 @@ 2000000 :> 135335 @@
    2027027 :> 131727 @@ 2040000 :> 130029 @@ 2067568 :> 126493 @@ 2080000 :> 124930 @@
    2108108 :> 121468 @@ 2120000 :> 120032 @@ 2148649 :> 116642 @@ 2160000 :> 115325 @@
    2189189 :> 112008 @@ 2200000 :> 110803 @@ 2229730 :> 107557 @@ 2240000 :> 106459 @@
    2270270 :> 103284 @@ 2280000 :> 102284 @@ 2310811 :> 99181 @@ 2320000 :> 98274 @@
    2351351 :> 95240 @@ 2360000 :> 94420 @@ 2391892 :> 91456 @@ 2400000 :> 90718 @@
    2432432 :> 87823 @@ 2440000 :> 87161 @@ 2472973 :> 84334 @@ 2480000 :> 83743 @@
    2500000 :> 82085 @@ 2513514 :> 80983 @@ 2520000 :> 80460 @@ 2554054 :> 77766 @@
    2560000 :> 77305 @@ 2594595 :> 74676 @@ 2600000 :> 74274 @@ 2635135 :> 71709 @@
    2640000 :> 71361 @@ 2675676 :> 68860 @@ 2680000 :> 68563 @@ 2716216 :> 66124 @@
    2720000 :> 65875 @@ 2756757 :> 63497 @@ 2760000 :> 63292 @@ 2797297 :> 60975 @@
    2800000 :> 60810 @@ 2837838 :> 58552 @@ 2840000 :> 58426 @@ 2878378 :> 56226 @@
    2880000 :> 56135 @@ 2918919 :> 53992 @@ 2920000 :> 53934 @@ 2959459 :> 51847 @@
    2960000 :> 51819 @@ 3000000 :> 49787 @@ 3125000 :> 43937

MathExp(minusX) == expTable[minusX]

\* Number of equal steps of [0,1) Math.random() is drawn from; the last draw
\* stands for the largest double below 1.
RandomSteps == 2

RandomDraws ==
    {IF k = RandomSteps THEN Unit - 1 ELSE (k * Unit) \div RandomSteps : k \in 0..RandomSteps}

SetMax(S) == CHOOSE x \in S : \A y \in S : y <= x

clamp(value) ==
    IF value < 0 THEN 0 ELSE IF value > Unit THEN Unit ELSE value

\* start + (end - start) * t, start and end literals, t in millionths.
lerp(start, end, t) == Lit(start) + Scaled(t, end - start)

\* (Math.random() - 0.5) * magnitude
noise(random, magnitude) == Scaled(random - Unit \div 2, magnitude)

addNoise(value, magnitude, random) == clamp(value + noise(random, magnitude))

---------------------------------------------------------------------------
(* generateSystemAlpha *)

InWindow(events, day, length) ==
    {e \in events : day - e.day >= 0 /\ day - e.day < length}

alpha_baseProfile ==
    [u |-> 25, severity |-> 20, scope |-> 40, correlation |-> 15, containment |-> 85]

alpha_baseInvariants ==
    [redundancy |-> 85, connectivityDensity |-> 75, feedbackLatency |-> 80,
     regenerationRate |-> 60, dependencyConcentration |-> 20]

alpha_events ==
    {[day |-> 12, magnitude |-> 30], [day |-> 28, magnitude |-> 25],
     [day |-> 45, magnitude |-> 35], [day |-> 67, magnitude |-> 30],
     [day |-> 82, magnitude |-> 20]}

\* spike = magnitude * exp(-(daysSince / 4) * 2), the largest over the events
\* whose five-day window holds the day.
alpha_perturbationEffect(day) ==
    SetMax({0} \cup
        {Scaled(MathExp(Round((day - e.day) * 2 * Unit, 4)), e.magnitude) :
            e \in InWindow(alpha_events, day, 5)})

alpha_pentadic(day, field, random) ==
    LET perturbationEffect == alpha_perturbationEffect(day)
        coefficient ==
            [u |-> 10, severity |-> 15, scope |-> 10, correlation |-> 5,
             containment |-> 0 - 10]
        magnitude ==
            [u |-> 2, severity |-> 2, scope |-> 2, correlation |-> 1, containment |-> 2]
    IN  addNoise(Lit(alpha_baseProfile[field])
                    + Scaled(perturbationEffect, coefficient[field]),
                 magnitude[field], random)

alpha_invariants(day, field, random) ==
    addNoise(Lit(alpha_baseInvariants[field]), 2, random)

---------------------------------------------------------------------------
(* generateSystemBeta *)

beta_startProfile ==
    [u |-> 35, severity |-> 40, scope |-> 45, correlation |-> 45, containment |-> 55]

beta_endProfile ==
    [u |-> 50, severity |-> 70, scope |-> 65, correlation |-> 75, containment |-> 30]

beta_startInvariants ==
    [redundancy |-> 50, connectivityDensity |-> 80, feedbackLatency |-> 55,
     regenerationRate |-> 40, dependencyConcentration |-> 55]

beta_endInvariants ==
    [redundancy |-> 25, connectivityDensity |-> 80, feedbackLatency |-> 30,
     regenerationRate |-> 20, dependencyConcentration |-> 85]

beta_events ==
    {[day |-> 18, magnitude |-> 35], [day |-> 38, magnitude |-> 40],
     [day |-> 58, magnitude |-> 45], [day |-> 78, magnitude |-> 50]}

\* t = day / 89; driftT = day < 55 ? t * 0.6 : 0.6 + (t - 55 / 89) * 1.5
beta_driftT(day) ==
    LET t == Round(day * Unit, 89)
    IN  IF day < 55
        THEN Scaled(t, 60)
        ELSE Lit(60) + Scaled(t - Round(55 * Unit, 89), 150)

\* spike = magnitude * (residual + (1 - residual) * exp(-(daysSince / 10) * 1.5))
beta_perturbationEffect(day) ==
    LET recoveryRate == IF day < 55 THEN 70 ELSE 40
        residual == One - recoveryRate
    IN  SetMax({0} \cup
            {Scaled(Lit(residual)
                      + Scaled(MathExp(Round((day - e.day) * 15 * Unit, 100)),
                               One - residual),
                    e.magnitude) :
                e \in InWindow(beta_events, day, 12)})

beta_pentadic(day, field, random) ==
    LET driftT == beta_driftT(day)
        perturbationEffect == beta_perturbationEffect(day)
        coefficient ==
            [u |-> 10, severity |-> 20, scope |-> 15, correlation |-> 10,
             containment |-> 0 - 15]
    IN  clamp(lerp(beta_startProfile[field], beta_endProfile[field], driftT)
                + Scaled(perturbationEffect, coefficient[field])
                + noise(random, 2))

beta_invariants(day, field, random) ==
    LET driftT == beta_driftT(day)
    IN  IF field = "connectivityDensity"
        THEN clamp(Lit(beta_startInvariants[field]) + noise(random, 2))
        ELSE clamp(lerp(beta_startInvariants[field], beta_endInvariants[field], driftT)
                     + noise(random, 2))

---------------------------------------------------------------------------
(* generateSystemGamma *)

gamma_precrisisProfile ==
    [u |-> 40, severity |-> 35, scope |-> 35, correlation |-> 35, containment |-> 65]

\* Mutant: the crisis severity is written as 1.05.
gamma_crisisProfile_Over ==
    [u |-> 75, severity |-> 105, scope |-> 70, correlation |-> 70, containment |-> 25]

gamma_crisisProfile ==
    [u |-> 75, severity |-> 85, scope |-> 70, correlation |-> 70, containment |-> 25]

\* Mutant: the recovered scope is 0.40.
gamma_recoveredProfile_Wide ==
    [u |-> 55, severity |-> 50, scope |-> 40, correlation |-> 45, containment |-> 55]

gamma_recoveredProfile ==
    [u |-> 55, severity |-> 50, scope |-> 30, correlation |-> 45, containment |-> 55]

gamma_precrisisInvariants ==
    [redundancy |-> 55, connectivityDensity |-> 60, feedbackLatency |-> 50,
     regenerationRate |-> 45, dependencyConcentration |-> 50]

gamma_crisisInvariants ==
    [redundancy |-> 20, connectivityDensity |-> 30, feedbackLatency |-> 25,
     regenerationRate |-> 75, dependencyConcentration |-> 70]

gamma_recoveredInvariants ==
    [redundancy |-> 50, connectivityDensity |-> 45, feedbackLatency |-> 55,
     regenerationRate |-> 75, dependencyConcentration |-> 50]

gamma_events ==
    {[day |-> 15, magnitude |-> 85], [day |-> 42, magnitude |-> 35],
     [day |-> 68, magnitude |-> 25]}

\* events.slice(1): spike = magnitude * exp(-(daysSince / 4) * 2.5)
gamma_perturbationEffect(day) ==
    SetMax({0} \cup
        {Scaled(MathExp(Round((day - e.day) * 25 * Unit, 40)), e.magnitude) :
            e \in InWindow({ev \in gamma_events : ev.day # 15}, day, 6)})

\* t = (day - 15) / (89 - 15); recoveryT = 1 - exp(-t * 3)
gamma_recoveryT(day) == Unit - MathExp(Round(3 * Unit * (day - 15), 89 - 15))

gamma_pentadic(day, field, random) ==
    IF day < 15
    THEN LET t == Round(day * Unit, 14)
             rise == [u |-> 10, severity |-> 5, correlation |-> 10]
         IN  IF field \in DOMAIN rise
             THEN addNoise(lerp(gamma_precrisisProfile[field],
                                gamma_precrisisProfile[field] + rise[field], t),
                           2, random)
             ELSE addNoise(Lit(gamma_precrisisProfile[field]), 2, random)
    ELSE IF day = 15
    THEN Lit(gamma_crisisProfile[field])
    ELSE LET perturbationEffect == gamma_perturbationEffect(day)
             recoveryT == gamma_recoveryT(day)
             coefficient ==
                 [u |-> 10, severity |-> 15, scope |-> 10, correlation |-> 5,
                  containment |-> 0 - 10]
         IN  clamp(lerp(gamma_crisisProfile[field], gamma_recoveredProfile[field],
                        recoveryT)
                     + Scaled(perturbationEffect, coefficient[field])
                     + noise(random, 2))

gamma_invariants(day, field, random) ==
    IF day < 15
    THEN addNoise(Lit(gamma_precrisisInvariants[field]), 2, random)
    ELSE IF day = 15
    THEN Lit(gamma_crisisInvariants[field])
    ELSE IF field = "regenerationRate"
    THEN clamp(Lit(gamma_recoveredInvariants[field]) + noise(random, 2))
    ELSE clamp(lerp(gamma_crisisInvariants[field], gamma_recoveredInvariants[field],
                    gamma_recoveryT(day))
                 + noise(random, 2))

---------------------------------------------------------------------------
(* generateTimeSeries and the subscore registries (subscores.ts) *)

\* The generateTimeSeries call and the trajectory tag of each of the twelve
\* subscores of a registry, in the order of the object literal.
alpha_subscores ==
    <<[base |-> 82, trend |-> "stable", trajectory |-> "stable"],
      [base |-> 78, trend |-> "stable", trajectory |-> "stable"],
      [base |-> 75, trend |-> "stable", trajectory |-> "stable"],
      [base |-> 70, trend |-> "stable", trajectory |-> "stable"],
      [base |-> 72, trend |-> "stable", trajectory |-> "stable"],
      [base |-> 80, trend |-> "stable", trajectory |-> "stable"],
      [base |-> 85, trend |-> "stable", trajectory |-> "stable"],
      [base |-> 65, trend |-> "stable", trajectory |-> "stable"],
      [base |-> 70, trend |-> "stable", trajectory |-> "stable"],
      [base |-> 25, trend |-> "stable", trajectory |-> "stable"],
      [base |-> 20, trend |-> "stable", trajectory |-> "stable"],
      [base |-> 30, trend |-> "stable", trajectory |-> "stable"]>>

beta_subscores ==
    <<[base |-> 55, trend |-> "down", trajectory |-> "declining"],
      [base |-> 50, trend |-> "down", trajectory |-> "declining"],
      [base |-> 45, trend |-> "down", trajectory |-> "declining"],
      [base |-> 80, trend |-> "stable", trajectory |-> "stable"],
      [base |-> 75, trend |-> "stable", trajectory |-> "stable"],
      [base |-> 55, trend |-> "down", trajectory |-> "declining"],
      [base |-> 50, trend |-> "down", trajectory |-> "declining"],
      [base |-> 40, trend |-> "down", trajectory |-> "declining"],
      [base |-> 35, trend |-> "down", trajectory |-> "declining"],
      [base |-> 55, trend |-> "up", trajectory |-> "declining"],
      [base |-> 50, trend |-> "up", trajectory |-> "declining"],
      [base |-> 60, trend |-> "up", trajectory |-> "declining"]>>

gamma_subscores ==
    <<[base |-> 55, trend |-> "crisis-recovery", trajectory |-> "improving"],
      [base |-> 50, trend |-> "crisis-recovery", trajectory |-> "improving"],
      [base |-> 48, trend |-> "crisis-recovery", trajectory |-> "improving"],
      [base |-> 55, trend |-> "crisis-recovery", trajectory |-> "improving"],
      [base |-> 50, trend |-> "crisis-recovery", trajectory |-> "improving"],
      [base |-> 50, trend |-> "crisis-recovery", trajectory |-> "improving"],
      [base |-> 55, trend |-> "crisis-recovery", trajectory |-> "improving"],
      [base |-> 70, trend |-> "up", trajectory |-> "improving"],
      [base |-> 65, trend |-> "up", trajectory |-> "improving"],
      [base |-> 55, trend |-> "crisis-recovery", trajectory |-> "improving"],
      [base |-> 50, trend |-> "crisis-recovery", trajectory |-> "improving"],
      [base |-> 52, trend |-> "crisis-recovery", trajectory |-> "improving"]>>

subscoreCalls == [alpha |-> alpha_subscores, beta |-> beta_subscores, gamma |-> gamma_subscores]

\* Every entry of subscoreDefinitions carries these placeholders.
subscoreDefinition == [timeSeries |-> <<>>, trajectory |-> "stable"]

\* The value of iteration i before it is clamped; noise has its default 0.03.
timeSeriesValue(base, trend, i, random) ==
    LET t == Round(i * Unit, 89)
        jitter == 2 * noise(random, 3)
    IN  CASE trend = "stable" -> Lit(base) + jitter
          [] trend = "up" -> Lit(base) + Scaled(t, 20) + jitter
          [] trend = "down" -> Lit(base) - Scaled(t, 25) + jitter
          [] trend = "crisis-recovery" ->
                IF i < 15 THEN Lit(base) + jitter
                ELSE IF i = 15 THEN Lit(base) - Lit(40)
                ELSE LET recovery == Unit - MathExp(Round((i - 15) * Unit, 25))
                     IN  (Lit(base) - Lit(40)) + Scaled(recovery, 35) + jitter

\* Mutant: the tag is read off the series.
subscoreTrajectory_FromSeries(call, last) ==
    IF last < Lit(call.base) THEN "declining" ELSE "improving"

\* trajectory: '...' of the object literal; the generated series plays no part.
subscoreTrajectory(call, last) == call.trajectory

---------------------------------------------------------------------------
(* The generators as loops *)

Systems == {"alpha", "beta", "gamma"}

\* The order in which the fields of the two literals are evaluated.
pentadicOrder == <<"u", "severity", "scope", "correlation", "containment">>
invariantOrder ==
    <<"redundancy", "connectivityDensity", "feedbackLatency", "regenerationRate",
      "dependencyConcentration">>

Fields(literal) == DOMAIN literal
NextField(order, literal) == order[Cardinality(Fields(literal)) + 1]
Complete(order, literal) == Cardinality(Fields(literal)) = Len(order)

pentadicField(sys, d, field, random) ==
    CASE sys = "alpha" -> alpha_pentadic(d, field, random)
      [] sys = "beta" -> beta_pentadic(d, field, random)
      [] sys = "gamma" -> gamma_pentadic(d, field, random)

invariantsField(sys, d, field, random) ==
    CASE sys = "alpha" -> alpha_invariants(d, field, random)
      [] sys = "beta" -> beta_invariants(d, field, random)
      [] sys = "gamma" -> gamma_invariants(d, field, random)

\* Gamma copies its crisis records on day 15; every other literal is
\* evaluated field by field, each field with a draw of Math.random.
IsCopy(sys, d) == sys = "gamma" /\ d = 15

\* trajectoryType and activeContractionModes of the returned SystemData.
systemReturn ==
    [alpha |-> [id |-> "alpha", trajectoryType |-> "Elastic",
                activeContractionModes |-> <<>>],
     beta |-> [id |-> "beta", trajectoryType |-> "Degenerative",
               activeContractionModes |-> <<"curvatureSteepening", "dimensionalCollapse">>],
     gamma |-> [id |-> "gamma", trajectoryType |-> "Regenerative",
                activeContractionModes |-> <<"topologicalFragmentation">>]]

CallIdle ==
    /\ fn = "none" /\ args = <<>> /\ pc = "idle" /\ result = Pending
    /\ moduleConfig = defaultConfig /\ first = Pending

InitGen ==
    /\ CallIdle
    /\ AppIdle
    /\ system \in Systems
    /\ genDay = 0
    /\ pentadicLiteral = <<>> /\ invariantsLiteral = <<>>
    /\ lengths = [pentadicSeries |-> 0, invariantSeries |-> 0, series |-> 0]
    /\ pushed = Pending /\ returned = Pending
    /\ \/ genpc = "systems" /\ genSubscore = 0
       \/ genpc = "timeSeries" /\ genSubscore \in 1..Len(subscoreCalls[system])

\* The next field of the pentadic literal.
EvalPentadic ==
    /\ genpc = "systems" /\ genDay < Days
    /\ lengths.pentadicSeries = genDay
    /\ ~Complete(pentadicOrder, pentadicLiteral)
    /\ IF IsCopy(system, genDay)
       THEN pentadicLiteral' = [f \in ProfileFields |-> pentadicField(system, genDay, f, 0)]
       ELSE \E random \in RandomDraws :
              LET field == NextField(pentadicOrder, pentadicLiteral)
              IN  pentadicLiteral' =
                    pentadicLiteral @@ (field :> pentadicField(system, genDay, field, random))
    /\ UNCHANGED <<genpc, system, genSubscore, genDay, invariantsLiteral, lengths, pushed, returned,
                   callVars, appVars>>

\* pentadicSeries.push(pentadic).  The code pushes both literals at the end
\* of the iteration; nothing reads a literal or an array in between, so each
\* push is taken as soon as its literal is complete.
PushPentadic ==
    /\ genpc = "systems" /\ genDay < Days
    /\ Complete(pentadicOrder, pentadicLiteral)
    /\ lengths.pentadicSeries = genDay
    /\ lengths' = [lengths EXCEPT !.pentadicSeries = @ + 1]
    /\ pentadicLiteral' = <<>>
    /\ UNCHANGED <<genpc, system, genSubscore, genDay, invariantsLiteral, pushed, returned, callVars, appVars>>

\* The next field of the invariants literal.
EvalInvariants ==
    /\ genpc = "systems" /\ genDay < Days
    /\ lengths.pentadicSeries = genDay + 1
    /\ ~Complete(invariantOrder, invariantsLiteral)
    /\ IF IsCopy(system, genDay)
       THEN invariantsLiteral' = [f \in Invariants |-> invariantsField(system, genDay, f, 0)]
       ELSE \E random \in RandomDraws :
              LET field == NextField(invariantOrder, invariantsLiteral)
              IN  invariantsLiteral' =
                    invariantsLiteral @@ (field :> invariantsField(system, genDay, field, random))
    /\ UNCHANGED <<genpc, system, genSubscore, genDay, pentadicLiteral, lengths, pushed, returned,
                   callVars, appVars>>

\* invariantSeries.push(invariants); day++
PushInvariants ==
    /\ genpc = "systems" /\ genDay < Days
    /\ Complete(invariantOrder, invariantsLiteral)
    /\ lengths' = [lengths EXCEPT !.invariantSeries = @ + 1]
    /\ invariantsLiteral' = <<>>
    /\ genDay' = genDay + 1
    /\ UNCHANGED <<genpc, system, genSubscore, pentadicLiteral, pushed, returned, callVars, appVars>>

ReturnSystem ==
    /\ genpc = "systems" /\ genDay = Days
    /\ returned' = systemReturn[system]
    /\ genpc' = "returned"
    /\ UNCHANGED <<system, genSubscore, genDay, pentadicLiteral, invariantsLiteral, lengths, pushed, callVars, appVars>>

\* One iteration of generateTimeSeries: series.push(Math.max(0, Math.min(1, value)))
PushValue ==
    /\ genpc = "timeSeries" /\ genDay < Days
    /\ \E random \in RandomDraws :
          LET call == subscoreCalls[system][genSubscore]
          IN  pushed' = Defined(clamp(timeSeriesValue(call.base, call.trend, genDay, random)))
    /\ lengths' = [lengths EXCEPT !.series = @ + 1]
    /\ genDay' = genDay + 1
    /\ UNCHANGED <<genpc, system, genSubscore, pentadicLiteral, invariantsLiteral, returned, callVars, appVars>>

\* { ...subscoreDefinitions.x[k], timeSeries: series, trajectory: '...' }
ReturnSubscore ==
    /\ genpc = "timeSeries" /\ genDay = Days
    /\ LET call == subscoreCalls[system][genSubscore]
       IN  returned' =
             Spread(subscoreDefinition,
                    [timeSeries |-> lengths.series,
                     trajectory |-> subscoreTrajectory(call, pushed.value)])
    /\ genpc' = "returned"
    /\ UNCHANGED <<system, genSubscore, genDay, pentadicLiteral, invariantsLiteral, lengths, pushed, callVars, appVars>>

NextGen ==
    \/ EvalPentadic
    \/ PushPentadic
    \/ EvalInvariants
    \/ PushInvariants
    \/ ReturnSystem
    \/ PushValue
    \/ ReturnSubscore

SpecGen == InitGen /\ [][NextGen]_vars

---------------------------------------------------------------------------
(* PlaybackControls: the playback effect *)

\* totalDays={90}
TotalDays == 90

\* SPEED_OPTIONS, in hundredths.
SPEED_OPTIONS == <<50, 100, 200, 400>>
BASE_INTERVAL_MS == 200

\* PlaybackControls is rendered in every view but the comparison view.
Mounted(mode) == mode # "comparison"

\* The dependencies of the playback effect that can change (totalDays and
\* onDayChange never do).
Deps(playing, d, sp) == [isPlaying |-> playing, currentDay |-> d, speed |-> sp]

\* window.setInterval(...): an interval whose callback holds the currentDay of
\* this render; intervalRef.current now designates it and no other.
Install(active, deps) ==
    {[t EXCEPT !.isRef = FALSE] : t \in active}
        \cup {[day |-> deps.currentDay,
               intervalMs |-> (BASE_INTERVAL_MS * One) \div deps.speed,
               isRef |-> TRUE]}

\* Mutant: the cleanup leaves the interval running.
effectCleanup_KeepsInterval(active) == active

\* if (intervalRef.current) clearInterval(intervalRef.current)
effectCleanup(active) == {t \in active : ~t.isRef}

\* Mutant: the interval is installed whether or not playback is active.
playbackEffect_Always(active, deps) == Install(active, deps)

\* if (isPlaying) { intervalRef.current = window.setInterval(...) }
playbackEffect(active, deps) ==
    IF deps.isPlaying THEN Install(active, deps) ELSE active

\* The intervals after the commit of a render.  With changed dependencies
\* the cleanup the last effect returned (it returned one when it installed
\* an interval) runs before the effect; unmounting runs that cleanup and the
\* unmount cleanup; mounting runs the effect.
AfterRender(active, wasMounted, before, isMounted, after) ==
    LET cleaned == IF before.isPlaying THEN effectCleanup(active) ELSE active
    IN  IF wasMounted /\ isMounted
        THEN IF before = after THEN active ELSE playbackEffect(cleaned, after)
        ELSE IF wasMounted
        THEN {t \in cleaned : ~t.isRef}
        ELSE IF isMounted
        THEN playbackEffect(active, after)
        ELSE active

\* The commit that follows the state updates of a handler or callback.
Rendered ==
    timers' = AfterRender(timers, Mounted(viewMode), Deps(isPlaying, currentDay, speed),
                          Mounted(viewMode'), Deps(isPlaying', currentDay', speed'))

---------------------------------------------------------------------------
(* App and PlaybackControls: handlers *)

\* The days the slider is dragged to.
ScrubDays == {0, 1, 45, 88, 89}

\* The handler that ran, the dimension, invariant or system it was given, and
\* for a click on the sparklines the pixel column of the click (x of
\* handleClick, 0 for any other event).
EventAt(name, arg, x) == [name |-> name, arg |-> arg, x |-> x]
EventOn(name, arg) == EventAt(name, arg, 0)
Event(name) == EventOn(name, "none")

InitApp ==
    /\ CallIdle
    /\ GenIdle
    /\ selectedSystemId = "alpha"
    /\ currentDay = 89
    /\ isPlaying = FALSE
    /\ viewMode = "standard"
    /\ selectedDimension = "null"
    /\ selectedInvariant = "null"
    /\ timelineMode = "sparklines"
    /\ comparisonDayA = Number(0)
    /\ comparisonDayB = Number(89)
    /\ speed = 100
    /\ timers = {}
    /\ lastEvent = Event("mount")

\* Mutant: the day stays at the last day.
nextDay_Saturating(day, totalDays) ==
    IF day >= totalDays - 1 THEN totalDays - 1 ELSE day + 1

\* currentDay >= totalDays - 1 ? 0 : currentDay + 1
nextDay(day, totalDays) == IF day >= totalDays - 1 THEN 0 ELSE day + 1

\* The callback of an installed interval: onDayChange(nextDay).
Tick ==
    /\ \E t \in timers : currentDay' = nextDay(t.day, TotalDays)
    /\ lastEvent' = Event("tick")
    /\ UNCHANGED <<selectedSystemId, isPlaying, viewMode, selectedDimension,
                   selectedInvariant, speed>>
    /\ Rendered
    /\ UNCHANGED <<timelineMode, comparisonDayA, comparisonDayB>>
    /\ UNCHANGED <<callVars, genVars>>

togglePlay ==
    /\ Mounted(viewMode)
    /\ isPlaying' = ~isPlaying
    /\ lastEvent' = Event("togglePlay")
    /\ UNCHANGED <<selectedSystemId, currentDay, viewMode, selectedDimension,
                   selectedInvariant, speed>>
    /\ Rendered
    /\ UNCHANGED <<timelineMode, comparisonDayA, comparisonDayB>>
    /\ UNCHANGED <<callVars, genVars>>

handleSliderChange ==
    /\ Mounted(viewMode)
    /\ \E d \in ScrubDays : currentDay' = d
    /\ lastEvent' = Event("handleSliderChange")
    /\ UNCHANGED <<selectedSystemId, isPlaying, viewMode, selectedDimension,
                   selectedInvariant, speed>>
    /\ Rendered
    /\ UNCHANGED <<timelineMode, comparisonDayA, comparisonDayB>>
    /\ UNCHANGED <<callVars, genVars>>

stepBackward ==
    /\ Mounted(viewMode)
    /\ currentDay' = IF currentDay - 1 > 0 THEN currentDay - 1 ELSE 0
    /\ lastEvent' = Event("stepBackward")
    /\ UNCHANGED <<selectedSystemId, isPlaying, viewMode, selectedDimension,
                   selectedInvariant, speed>>
    /\ Rendered
    /\ UNCHANGED <<timelineMode, comparisonDayA, comparisonDayB>>
    /\ UNCHANGED <<callVars, genVars>>

\* Mutant: stepping forward on the last day wraps like a tick.
stepForward_Wraps ==
    /\ Mounted(viewMode)
    /\ currentDay' = nextDay(currentDay, TotalDays)
    /\ lastEvent' = Event("stepForward")
    /\ UNCHANGED <<selectedSystemId, isPlaying, viewMode, selectedDimension,
                   selectedInvariant, speed>>
    /\ Rendered
    /\ UNCHANGED <<timelineMode, comparisonDayA, comparisonDayB>>
    /\ UNCHANGED <<callVars, genVars>>

stepForward ==
    /\ Mounted(viewMode)
    /\ currentDay' = IF currentDay + 1 < TotalDays - 1 THEN currentDay + 1 ELSE TotalDays - 1
    /\ lastEvent' = Event("stepForward")
    /\ UNCHANGED <<selectedSystemId, isPlaying, viewMode, selectedDimension,
                   selectedInvariant, speed>>
    /\ Rendered
    /\ UNCHANGED <<timelineMode, comparisonDayA, comparisonDayB>>
    /\ UNCHANGED <<callVars, genVars>>

jumpToStart ==
    /\ Mounted(viewMode)
    /\ currentDay' = 0
    /\ isPlaying' = FALSE
    /\ lastEvent' = Event("jumpToStart")
    /\ UNCHANGED <<selectedSystemId, viewMode, selectedDimension, selectedInvariant, speed>>
    /\ Rendered
    /\ UNCHANGED <<timelineMode, comparisonDayA, comparisonDayB>>
    /\ UNCHANGED <<callVars, genVars>>

jumpToEnd ==
    /\ Mounted(viewMode)
    /\ currentDay' = TotalDays - 1
    /\ isPlaying' = FALSE
    /\ lastEvent' = Event("jumpToEnd")
    /\ UNCHANGED <<selectedSystemId, viewMode, selectedDimension, selectedInvariant, speed>>
    /\ Rendered
    /\ UNCHANGED <<timelineMode, comparisonDayA, comparisonDayB>>
    /\ UNCHANGED <<callVars, genVars>>

cycleSpeed ==
    /\ Mounted(viewMode)
    /\ \E currentIndex \in 1..Len(SPEED_OPTIONS) :
          /\ SPEED_OPTIONS[currentIndex] = speed
          /\ speed' = SPEED_OPTIONS[(currentIndex % Len(SPEED_OPTIONS)) + 1]
    /\ lastEvent' = Event("cycleSpeed")
    /\ UNCHANGED <<selectedSystemId, currentDay, isPlaying, viewMode, selectedDimension,
                   selectedInvariant>>
    /\ Rendered
    /\ UNCHANGED <<timelineMode, comparisonDayA, comparisonDayB>>
    /\ UNCHANGED <<callVars, genVars>>

\* Mutant: the system change leaves playback running.
handleSystemChange_KeepsPlaying ==
    /\ \E id \in Systems :
          /\ selectedSystemId' = id
          /\ lastEvent' = EventOn("handleSystemChange", id)
    /\ currentDay' = 89
    /\ selectedDimension' = "null"
    /\ selectedInvariant' = "null"
    /\ UNCHANGED <<isPlaying, viewMode, speed>>
    /\ Rendered
    /\ UNCHANGED <<timelineMode, comparisonDayA, comparisonDayB>>
    /\ UNCHANGED <<callVars, genVars>>

handleSystemChange ==
    /\ \E id \in Systems :
          /\ selectedSystemId' = id
          /\ lastEvent' = EventOn("handleSystemChange", id)
    /\ currentDay' = 89
    /\ isPlaying' = FALSE
    /\ selectedDimension' = "null"
    /\ selectedInvariant' = "null"
    /\ UNCHANGED <<viewMode, speed>>
    /\ Rendered
    /\ UNCHANGED <<timelineMode, comparisonDayA, comparisonDayB>>
    /\ UNCHANGED <<callVars, genVars>>

\* A local speed state starts at 1x whenever PlaybackControls mounts.
SpeedAcross(mode) == IF Mounted(viewMode) = Mounted(mode) THEN speed ELSE 100

\* Mutant: the Standard button changes the view only.
viewStandard_KeepsSelection ==
    /\ viewMode' = "standard"
    /\ speed' = SpeedAcross("standard")
    /\ lastEvent' = Event("viewStandard")
    /\ UNCHANGED <<selectedSystemId, currentDay, isPlaying, selectedDimension,
                   selectedInvariant>>
    /\ Rendered
    /\ UNCHANGED <<timelineMode, comparisonDayA, comparisonDayB>>
    /\ UNCHANGED <<callVars, genVars>>

\* The Standard button.
viewStandard ==
    /\ viewMode' = "standard"
    /\ selectedDimension' = "null"
    /\ selectedInvariant' = "null"
    /\ speed' = SpeedAcross("standard")
    /\ lastEvent' = Event("viewStandard")
    /\ UNCHANGED <<selectedSystemId, currentDay, isPlaying>>
    /\ Rendered
    /\ UNCHANGED <<timelineMode, comparisonDayA, comparisonDayB>>
    /\ UNCHANGED <<callVars, genVars>>

\* The Drill-Down button.
viewDrilldown ==
    /\ viewMode' = "drilldown"
    /\ speed' = SpeedAcross("drilldown")
    /\ lastEvent' = Event("viewDrilldown")
    /\ UNCHANGED <<selectedSystemId, currentDay, isPlaying, selectedDimension,
                   selectedInvariant>>
    /\ Rendered
    /\ UNCHANGED <<timelineMode, comparisonDayA, comparisonDayB>>
    /\ UNCHANGED <<callVars, genVars>>

\* The Compare button.
viewComparison ==
    /\ viewMode' = "comparison"
    /\ speed' = SpeedAcross("comparison")
    /\ lastEvent' = Event("viewComparison")
    /\ UNCHANGED <<selectedSystemId, currentDay, isPlaying, selectedDimension,
                   selectedInvariant>>
    /\ Rendered
    /\ UNCHANGED <<timelineMode, comparisonDayA, comparisonDayB>>
    /\ UNCHANGED <<callVars, genVars>>

\* The Sparklines and Filmstrip buttons above the timeline.
setTimelineMode ==
    /\ viewMode # "comparison"
    /\ \E mode \in {"sparklines", "filmstrip"} :
          /\ timelineMode' = mode
          /\ lastEvent' = EventOn("setTimelineMode", mode)
    /\ UNCHANGED <<selectedSystemId, currentDay, isPlaying, viewMode, selectedDimension,
                   selectedInvariant, speed>>
    /\ Rendered
    /\ UNCHANGED <<comparisonDayA, comparisonDayB>>
    /\ UNCHANGED <<callVars, genVars>>

\* SparklineTimeline: the svg is 400 pixels wide, the chart starts 35 pixels
\* from its left edge and ends 10 pixels from its right edge.
SparklineWidth == 400
PaddingLeft == 35
PaddingRight == 10
chartWidth == SparklineWidth - PaddingLeft - PaddingRight

\* e.clientX - rect.left of a click on the svg: pixel columns at both ends and
\* in the middle of the chart, and columns of the two paddings.
ClickOffsets ==
    {0, PaddingLeft - 3, PaddingLeft - 2, PaddingLeft - 1}
        \cup {PaddingLeft + k : k \in 0..2}
        \cup {PaddingLeft + chartWidth \div 2}
        \cup {SparklineWidth - PaddingRight + k : k \in (0 - 2)..3}
        \cup {SparklineWidth}

\* Math.round((x / chartWidth) * (timeSeries.length - 1)); x * 89 / 355 is
\* never within 0.001 of a half, so the double rounds as the exact quotient.
clickedDay(x, length) == MathRound(x * (length - 1), chartWidth)

\* Mutant: the click is passed on without the range check.
sparklineDay_Unchecked(day, length, current) == day

\* if (day >= 0 && day < timeSeries.length) onDaySelect(day)
sparklineDay(day, length, current) ==
    IF day >= 0 /\ day < length THEN day ELSE current

\* SparklineTimeline.handleClick, with onDaySelect = handleDayChange.
sparklineClick ==
    /\ viewMode # "comparison"
    /\ timelineMode = "sparklines"
    /\ \E offset \in ClickOffsets :
          LET x == offset - PaddingLeft
          IN  /\ currentDay' = sparklineDay(clickedDay(x, Days), Days, currentDay)
              /\ lastEvent' = EventAt("sparklineClick", "none", x)
    /\ UNCHANGED <<selectedSystemId, isPlaying, viewMode, selectedDimension,
                   selectedInvariant, speed>>
    /\ Rendered
    /\ UNCHANGED <<timelineMode, comparisonDayA, comparisonDayB>>
    /\ UNCHANGED <<callVars, genVars>>

\* A button of the filmstrip: onDaySelect?.(dayIndex), with the default
\* sampleCount of Timeline.
filmstripClick ==
    /\ viewMode # "comparison"
    /\ timelineMode = "filmstrip"
    /\ \E i \in 1..DefaultSampleCount :
          currentDay' = sampleIndices(Days, DefaultSampleCount)[i]
    /\ lastEvent' = Event("filmstripClick")
    /\ UNCHANGED <<selectedSystemId, isPlaying, viewMode, selectedDimension,
                   selectedInvariant, speed>>
    /\ Rendered
    /\ UNCHANGED <<timelineMode, comparisonDayA, comparisonDayB>>
    /\ UNCHANGED <<callVars, genVars>>

NextPlayback ==
    \/ setTimelineMode
    \/ sparklineClick
    \/ filmstripClick
    \/ Tick
    \/ togglePlay
    \/ handleSliderChange
    \/ stepBackward
    \/ stepForward
    \/ jumpToStart
    \/ jumpToEnd
    \/ cycleSpeed
    \/ handleSystemChange
    \/ viewStandard
    \/ viewDrilldown
    \/ viewComparison

SpecPlayback == InitApp /\ [][NextPlayback]_vars

\* Unattended playback: the user sets the day, the speed and the system while
\* playback is paused, starts playback and gives no further input.  An
\* installed interval keeps firing (setInterval), hence the fairness of Tick.
NextUnattended ==
    \/ Tick
    \/ ~isPlaying /\ togglePlay
    \/ ~isPlaying /\ handleSliderChange
    \/ ~isPlaying /\ cycleSpeed
    \/ ~isPlaying /\ handleSystemChange

SpecUnattended == InitApp /\ [][NextUnattended]_vars /\ WF_vars(Tick)

---------------------------------------------------------------------------
(* App: drill-down *)

\* Mutant: the dimension is looked at first.
explainerContextOf_DimensionFirst(dimension, invariant) ==
    IF dimension # "null" THEN "invariant"
    ELSE IF invariant # "null" THEN "subscore" ELSE "glyph"

\* selectedInvariant ? 'subscore' : selectedDimension ? 'invariant' : 'glyph'
explainerContextOf(dimension, invariant) ==
    IF invariant # "null" THEN "subscore"
    ELSE IF dimension # "null" THEN "invariant" ELSE "glyph"

explainerContext == explainerContextOf(selectedDimension, selectedInvariant)

\* What is rendered below the playback controls in the non-comparison view.
drillDownPanel ==
    IF viewMode # "drilldown" THEN "none"
    ELSE IF selectedDimension = "null" THEN "hint"
    ELSE IF selectedInvariant = "null" THEN "InvariantPanel"
    ELSE "SubscorePanel"

\* A dimension chip of the glyph card, which every view but the comparison
\* view renders.
handleDimensionClick ==
    /\ viewMode # "comparison"
    /\ \E dimension \in PentadicDimensions :
          /\ selectedDimension' = dimension
          /\ lastEvent' = EventOn("handleDimensionClick", dimension)
    /\ viewMode' = "drilldown"
    /\ selectedInvariant' = "null"
    /\ UNCHANGED <<selectedSystemId, currentDay, isPlaying, speed>>
    /\ Rendered
    /\ UNCHANGED <<timelineMode, comparisonDayA, comparisonDayB>>
    /\ UNCHANGED <<callVars, genVars>>

\* A stream of the invariant panel.
handleInvariantSelect ==
    /\ drillDownPanel = "InvariantPanel"
    /\ \E invariant \in Invariants :
          /\ selectedInvariant' = invariant
          /\ lastEvent' = EventOn("handleInvariantSelect", invariant)
    /\ UNCHANGED <<selectedSystemId, currentDay, isPlaying, viewMode, selectedDimension,
                   speed>>
    /\ Rendered
    /\ UNCHANGED <<timelineMode, comparisonDayA, comparisonDayB>>
    /\ UNCHANGED <<callVars, genVars>>

\* The breadcrumb of the drill-down panel: Glyph.
handleBackToGlyph ==
    /\ drillDownPanel \in {"InvariantPanel", "SubscorePanel"}
    /\ selectedDimension' = "null"
    /\ selectedInvariant' = "null"
    /\ viewMode' = "standard"
    /\ lastEvent' = Event("handleBackToGlyph")
    /\ UNCHANGED <<selectedSystemId, currentDay, isPlaying, speed>>
    /\ Rendered
    /\ UNCHANGED <<timelineMode, comparisonDayA, comparisonDayB>>
    /\ UNCHANGED <<callVars, genVars>>

\* The breadcrumb of the drill-down panel: the dimension.
handleBackToInvariants ==
    /\ drillDownPanel \in {"InvariantPanel", "SubscorePanel"}
    /\ selectedInvariant' = "null"
    /\ lastEvent' = Event("handleBackToInvariants")
    /\ UNCHANGED <<selectedSystemId, currentDay, isPlaying, viewMode, selectedDimension,
                   speed>>
    /\ Rendered
    /\ UNCHANGED <<timelineMode, comparisonDayA, comparisonDayB>>
    /\ UNCHANGED <<callVars, genVars>>

NextDrill ==
    \/ handleDimensionClick
    \/ handleInvariantSelect
    \/ handleBackToGlyph
    \/ handleBackToInvariants
    \/ handleSystemChange
    \/ viewStandard
    \/ viewDrilldown
    \/ viewComparison

SpecDrill == InitApp /\ [][NextDrill]_vars

---------------------------------------------------------------------------
(* App: derived state *)

\* systems.find((s) => s.id === selectedSystemId) ?? systemAlpha
selectedSystem == IF selectedSystemId \in Systems THEN selectedSystemId ELSE "alpha"

\* systemSubscores[selectedSystemId]: the registry of that system, or undefined.
currentSubscores ==
    IF selectedSystemId \in Systems THEN Defined(selectedSystemId) ELSE Pending

---------------------------------------------------------------------------
(* ComparisonSelector and the comparison view *)

\* Digits and lengths of the numbers typed into a day field.
MaxDigits == 2
TypedDigits == {"0", "9"}

DigitValue(c) ==
    CASE c = "0" -> 0 [] c = "1" -> 1 [] c = "2" -> 2 [] c = "3" -> 3 [] c = "4" -> 4
      [] c = "5" -> 5 [] c = "6" -> 6 [] c = "7" -> 7 [] c = "8" -> 8 [] c = "9" -> 9

IsDigit(c) == c \in {"0", "1", "2", "3", "4", "5", "6", "7", "8", "9"}

\* e.target.value of an <input type="number">: the empty string (the field
\* is empty or its text is not a number) or a number: an optional sign, digits,
\* and possibly a fraction.
InputTexts ==
    {<<>>} \cup
    {sign \o digits \o suffix :
        sign \in {<<>>, <<"-">>},
        digits \in UNION {[1..n -> TypedDigits] : n \in 1..MaxDigits},
        suffix \in {<<>>, <<".", "5">>}}

\* The value of the longest prefix of digits from position i on, or NaN when
\* there is no digit at position i.
RECURSIVE digitsFrom(_, _, _, _)
digitsFrom(text, i, acc, any) ==
    IF i <= Len(text) /\ IsDigit(text[i])
    THEN digitsFrom(text, i + 1, 10 * acc + DigitValue(text[i]), TRUE)
    ELSE IF any THEN Number(acc) ELSE NaN

\* parseInt(text, 10)
parseInt(text) ==
    IF Len(text) > 0 /\ text[1] \in {"-", "+"}
    THEN LET magnitude == digitsFrom(text, 2, 0, FALSE)
         IN  IF magnitude.nan \/ text[1] = "+" THEN magnitude
             ELSE Number(0 - magnitude.value)
    ELSE digitsFrom(text, 1, 0, FALSE)

\* a - b, Math.min(a, b), Math.max(a, b): NaN when an operand is NaN.
Minus(a, b) == IF a.nan \/ b.nan THEN NaN ELSE Number(a.value - b.value)
MathMin(a, b) ==
    IF a.nan \/ b.nan THEN NaN ELSE IF a.value <= b.value THEN a ELSE b
MathMax(a, b) ==
    IF a.nan \/ b.nan THEN NaN ELSE IF a.value >= b.value THEN a ELSE b

\* Math.max(0, Math.min(totalDays - 1, parseInt(e.target.value, 10) - 1))
selectorDay(text, totalDays) ==
    MathMax(Number(0), MathMin(Number(totalDays - 1), Minus(parseInt(text), Number(1))))

\* system.pentadicTimeSeries[day]: a profile, or undefined.
profileAt(day) ==
    IF ~day.nan /\ day.value \in 0..(Days - 1) THEN Defined(day.value) ELSE Pending

\* SnapshotComparison reads profileA[dim] and profileB[dim] while rendering:
\* with an undefined profile the render throws, and without an error
\* boundary React unmounts the application.
Crashed ==
    /\ viewMode = "comparison"
    /\ ~(profileAt(comparisonDayA).defined /\ profileAt(comparisonDayB).defined)

\* onChange of the first day field, with onDayAChange = setComparisonDayA.
onDayAChange ==
    /\ viewMode = "comparison" /\ ~Crashed
    /\ \E text \in InputTexts : comparisonDayA' = selectorDay(text, TotalDays)
    /\ lastEvent' = Event("onDayAChange")
    /\ UNCHANGED <<selectedSystemId, currentDay, isPlaying, viewMode, selectedDimension,
                   selectedInvariant, timelineMode, comparisonDayB, speed>>
    /\ Rendered
    /\ UNCHANGED <<callVars, genVars>>

\* onChange of the second day field, with onDayBChange = setComparisonDayB.
onDayBChange ==
    /\ viewMode = "comparison" /\ ~Crashed
    /\ \E text \in InputTexts : comparisonDayB' = selectorDay(text, TotalDays)
    /\ lastEvent' = Event("onDayBChange")
    /\ UNCHANGED <<selectedSystemId, currentDay, isPlaying, viewMode, selectedDimension,
                   selectedInvariant, timelineMode, comparisonDayA, speed>>
    /\ Rendered
    /\ UNCHANGED <<callVars, genVars>>

\* The handlers of the header, of the timeline and of playback together with
\* the comparison view; no handler runs once the application is unmounted.
NextComparison ==
    \/ onDayAChange
    \/ onDayBChange
    \/ ~Crashed /\ handleSystemChange
    \/ ~Crashed /\ viewStandard
    \/ ~Crashed /\ viewDrilldown
    \/ ~Crashed /\ viewComparison
    \/ setTimelineMode
    \/ togglePlay
    \/ Tick

SpecComparison == InitApp /\ [][NextComparison]_vars

---------------------------------------------------------------------------
(* Shorthands of the properties *)

Returned(f) == pc = "return" /\ fn = f

InUnit(x) == 0 <= x /\ x <= One

---------------------------------------------------------------------------
(* Geometry mapper: size, classification, pulse *)

\* C1: for every profile whose five fields lie in [0,1], computeGlyphGeometry
\* under the default configuration returns 40 <= height <= 160 and
\* 30 <= width <= 120; height is 40 exactly when severity = 0 and 160 when
\* severity = 1; width is 30 when scope = 0 and 120 when scope = 1.
C1_SizeWithinBounds ==
    (/\ Returned("computeGlyphGeometry")
     /\ args.config = EmptyConfig
     /\ \A f \in ProfileFields : InUnit(args.profile[f]))
    => /\ 40 * Sq <= result.height /\ result.height <= 160 * Sq
       /\ 30 * Sq <= result.width /\ result.width <= 120 * Sq
       /\ (result.height = 40 * Sq) <=> (args.profile.severity = 0)
       /\ (args.profile.severity = One) => (result.height = 160 * Sq)
       /\ (args.profile.scope = 0) => (result.width = 30 * Sq)
       /\ (args.profile.scope = One) => (result.width = 120 * Sq)

C1_Witness ==
    /\ Returned("computeGlyphGeometry")
    /\ args.config = EmptyConfig
    /\ \A f \in ProfileFields : InUnit(args.profile[f])
    /\ args.profile.severity = One /\ args.profile.scope = 0
    /\ result.height = 160 * Sq /\ result.width = 30 * Sq

\* C2: classifyGlyphShape tests the area before the aspect ratio: area > 0.5
\* gives "large" and area < 0.15 gives "compact" whatever the ratio is, and
\* only for 0.15 <= area <= 0.5 the ratio decides (> 1.5 "tall-narrow",
\* < 0.67 "short-wide", otherwise "square").
C2_AreaBeforeRatio ==
    Returned("classifyGlyphShape") =>
        LET sev == args.profile.severity
            sco == args.profile.scope
            area == sev * sco
            \* within 0.15 <= area the two fields are non-zero, of one sign
            tall == IF sco > 0 THEN 100 * sev > 150 * sco ELSE 100 * sev < 150 * sco
            wide == IF sco > 0 THEN 100 * sev < 67 * sco ELSE 100 * sev > 67 * sco
        IN  /\ (area > 5000) => (result = "large")
            /\ (area < 1500) => (result = "compact")
            /\ (1500 <= area /\ area <= 5000) =>
                  result = (IF tall THEN "tall-narrow"
                            ELSE IF wide THEN "short-wide" ELSE "square")

C2_Witness ==
    /\ Returned("classifyGlyphShape")
    /\ args.profile.severity = 90 /\ args.profile.scope = 90
    /\ result = "large"

\* C3: the compact threshold is strict: the result is "compact" if and only
\* if severity * scope < 0.15 (severity = scope = 0.4 is not compact).
C3_CompactIffBelowThreshold ==
    Returned("classifyGlyphShape") =>
        ((result = "compact") <=>
            (args.profile.severity * args.profile.scope < 1500))

C3_Witness ==
    /\ Returned("classifyGlyphShape")
    /\ args.profile.severity = 40 /\ args.profile.scope = 40
    /\ result # "compact"

---------------------------------------------------------------------------
(* Contribution table *)

\* C5: getContribution is total over the 5 x 5 pairs: the table holds a
\* strength for each pair, and the call returns 0.2, 0.5 or 0.8, never
\* undefined.
C5_ContributionTotal ==
    Returned("getContribution") =>
        /\ Cardinality(Invariants \X PentadicDimensions) = 25
        /\ Get(invariantPentadicMap[args.invariant], args.dimension).defined
        /\ result.defined
        /\ result.value \in {20, 50, 80}

C5_Witness ==
    /\ Returned("getContribution")
    /\ args.invariant = "regenerationRate" /\ args.dimension = "severity"
    /\ result = Defined(50)

---------------------------------------------------------------------------
(* Geometry mapper: fill and glow *)

\* The geometry of the same call with one profile field replaced.
GeometryWith(field, v) ==
    computeGlyphGeometry([args.profile EXCEPT ![field] = v], args.config)

\* C6: for containment in [0,1], fillOpacity lies in [0.2, 0.9] and does not
\* decrease when containment grows.
C6_FillOpacityRangeMonotone ==
    (Returned("computeGlyphGeometry") /\ InUnit(args.profile.containment)) =>
        /\ 20 * One <= result.fillOpacity /\ result.fillOpacity <= 90 * One
        /\ \A b \in FieldValues :
              (InUnit(b) /\ args.profile.containment <= b)
              => result.fillOpacity <= GeometryWith("containment", b).fillOpacity

C6_Witness ==
    /\ Returned("computeGlyphGeometry")
    /\ args.profile.containment = 50
    /\ result.fillOpacity = 55 * One
    /\ GeometryWith("containment", One).fillOpacity = 90 * One

\* C7: for correlation in [0,1] and a fixed configuration, glowBlur,
\* glowSpread and glowOpacity do not decrease when correlation grows, and
\* all three are zero at correlation = 0.
C7_GlowMonotoneZeroAtZero ==
    (Returned("computeGlyphGeometry") /\ InUnit(args.profile.correlation)) =>
        /\ \A b \in FieldValues :
              (InUnit(b) /\ args.profile.correlation <= b) =>
                 LET other == GeometryWith("correlation", b)
                 IN  /\ result.glowBlur <= other.glowBlur
                     /\ result.glowSpread <= other.glowSpread
                     /\ result.glowOpacity <= other.glowOpacity
        /\ (args.profile.correlation = 0) =>
              /\ result.glowBlur = 0
              /\ result.glowSpread = 0
              /\ result.glowOpacity = 0

C7_Witness ==
    /\ Returned("computeGlyphGeometry")
    /\ args.config = MiniGlyphConfig(24)
    /\ args.profile.correlation = 0
    /\ result.glowBlur = 0 /\ result.glowSpread = 0 /\ result.glowOpacity = 0
    /\ GeometryWith("correlation", One).glowBlur > 0

\* C8: under the default configuration xPosition = u,
\* height = 40 + 120 * severity, width = 30 + 90 * scope,
\* fillOpacity = 0.2 + 0.7 * containment and glowBlur = 30 * correlation; the
\* scenario profile {u 0.25, severity 0.20, scope 0.40, correlation 0.15,
\* containment 0.85} yields height 64, width 66, fillOpacity 0.795,
\* glowBlur 4.5 and shouldPulse = false.
C8_DefaultConfigFormulas ==
    (Returned("computeGlyphGeometry") /\ args.config = EmptyConfig) =>
        /\ result.xPosition = args.profile.u
        /\ result.height = 40 * Sq + 120 * One * args.profile.severity
        /\ result.width = 30 * Sq + 90 * One * args.profile.scope
        /\ result.fillOpacity = 20 * One + 70 * args.profile.containment
        /\ result.glowBlur = 30 * One * args.profile.correlation
        /\ (args.profile = Scenario) =>
              /\ result.height = 64 * Sq
              /\ result.width = 66 * Sq
              /\ result.fillOpacity * 10 = 795 * One
              /\ result.glowBlur * 10 = 45 * Sq
              /\ ~result.shouldPulse

C8_Witness ==
    /\ Returned("computeGlyphGeometry")
    /\ args.config = EmptyConfig
    /\ args.profile = Scenario
    /\ result.height = 64 * Sq
    /\ ~result.shouldPulse

\* C9: the containment fill colour is rgb(15, 31, 53) at containment 0 and
\* rgb(45, 90, 135) at containment 1; for containment in [0,1] each channel
\* lies between its two endpoint values.
C9_FillColourEndpoints ==
    Returned("computeGlyphGeometry") =>
        LET c == args.profile.containment
            colour == result.fillColor
        IN  /\ (c = 0) => (colour = Rgb(15, 31, 53))
            /\ (c = One) => (colour = Rgb(45, 90, 135))
            /\ InUnit(c) =>
                  /\ colour.css = "rgb"
                  /\ 15 <= colour.r /\ colour.r <= 45
                  /\ 31 <= colour.g /\ colour.g <= 90
                  /\ 53 <= colour.b /\ colour.b <= 135

C9_Witness ==
    /\ Returned("computeGlyphGeometry")
    /\ args.profile.containment = One
    /\ result.fillColor = Rgb(45, 90, 135)

\* C10: the fill opacity returned by computeGlyphGeometry lies in [0.2, 0.9]
\* for any containment value, also below 0 or above 1.
C10_FillOpacityClamped ==
    Returned("computeGlyphGeometry") =>
        (20 * One <= result.fillOpacity /\ result.fillOpacity <= 90 * One)

---------------------------------------------------------------------------
(* Glow colour *)

\* The channel of the linear blend from a to b at the fraction num / den.
Blend(a, b, num, den) == Round(a * den + num * (b - a), den)

\* C11: the glow colour has three segments with boundaries at 0.3 and 0.7:
\* on [0, 0.3) amber (212,165,116) with alpha 2 * correlation; on [0.3, 0.7)
\* the blend from amber towards orange (224,112,32); on [0.7, 1] the blend
\* from orange to red (192,64,32).  0.3 and 0.7 belong to the second and the
\* third segment, and the RGB channels do not jump at either boundary.
C11_GlowColourSegments ==
    (Returned("interpolateGlowColor") /\ InUnit(args.correlation)) =>
        LET c == args.correlation
            before == interpolateGlowColor(c - 1)
        IN  /\ (c < 30) => result = Rgba(212, 165, 116, 2 * c)
            /\ (30 <= c /\ c < 70) =>
                  result = Rgb(Blend(212, 224, c - 30, 40),
                               Blend(165, 112, c - 30, 40),
                               Blend(116, 32, c - 30, 40))
            /\ (70 <= c) =>
                  result = Rgb(Blend(224, 192, c - 70, 30),
                               Blend(112, 64, c - 70, 30),
                               Blend(32, 32, c - 70, 30))
            /\ (c = 30) => result = Rgb(212, 165, 116)
            /\ (c = 70) => result = Rgb(224, 112, 32)
            /\ (c = One) => result = Rgb(192, 64, 32)
            /\ (c \in {30, 70}) =>
                  /\ Abs(result.r - before.r) <= 1
                  /\ Abs(result.g - before.g) <= 2
                  /\ Abs(result.b - before.b) <= 3

C11_Witness ==
    /\ Returned("interpolateGlowColor")
    /\ args.correlation = 70
    /\ result = Rgb(224, 112, 32)
    /\ interpolateGlowColor(69) = Rgb(224, 113, 34)

---------------------------------------------------------------------------
(* Pathway aggregation *)

Reverse(seq) == [k \in 1..Len(seq) |-> seq[Len(seq) + 1 - k]]

\* C12: for a subscore with a primary and secondary invariants the pathway
\* gives, per pentadic dimension, the maximum of getContribution over the
\* subscore's invariants; the value is 0.2, 0.5 or 0.8, it does not depend on
\* the order of the invariants, and listing an invariant twice changes nothing.
C12_PathwayIsMaximum ==
    Returned("PentadicPathway") =>
        LET invs == allInvariants(args)
            listed == {invs[k] : k \in 1..Len(invs)}
        IN  /\ \A dim \in PentadicDimensions :
                LET strengths == {getContribution(i, dim).value : i \in listed}
                IN  /\ result[dim] \in strengths
                    /\ \A v \in strengths : v <= result[dim]
                    /\ result[dim] \in {20, 50, 80}
            /\ result = aggregatedContributions(Reverse(invs))
            /\ \A k \in 1..Len(invs) :
                  result = aggregatedContributions(invs \o <<invs[k]>>)

C12_Witness ==
    /\ Returned("PentadicPathway")
    /\ args.primaryInvariant = "feedbackLatency"
    /\ args.secondaryInvariants = Defined(<<"connectivityDensity", "regenerationRate">>)
    /\ result.uncertainty = 80
    /\ result.severity = 50
    /\ result.scope = 80

---------------------------------------------------------------------------
(* Totality *)

ShapeLabels == {"compact", "large", "tall-narrow", "short-wide", "square"}

GeometryFields ==
    {"xPosition", "height", "width", "fillOpacity", "fillColor", "glowBlur",
     "glowSpread", "glowOpacity", "glowColor", "shouldPulse"}

IsColour(c) ==
    /\ c.css \in {"rgb", "rgba"}
    /\ c.r \in Int /\ c.g \in Int /\ c.b \in Int
    /\ (c.css = "rgba") => c.a \in Int

\* C14: the geometry functions have no error outcome.  For every numeric
\* profile, fields outside [0,1] and scope = 0 included, computeGlyphGeometry
\* returns a record with all ten geometry fields and classifyGlyphShape
\* returns one of the five labels.
C14_NoErrorOutcome ==
    /\ Returned("classifyGlyphShape") => result \in ShapeLabels
    /\ Returned("computeGlyphGeometry") =>
          /\ DOMAIN result = GeometryFields
          /\ \A f \in {"xPosition", "height", "width", "fillOpacity",
                       "glowBlur", "glowSpread", "glowOpacity"} : result[f] \in Int
          /\ result.shouldPulse \in BOOLEAN
          /\ IsColour(result.fillColor)
          /\ IsColour(result.glowColor)

C14_Witness ==
    /\ Returned("classifyGlyphShape")
    /\ args.profile.scope = 0
    /\ args.profile.severity = One + One \div 2
    /\ result = "compact"

---------------------------------------------------------------------------
(* Determinism and side effects *)

---------------------------------------------------------------------------
(* Synthetic data *)

InUnitInterval(x) == 0 <= x /\ x <= Unit

\* C15: for each example system and every outcome of the random draws the
\* pentadic series and the invariant series get exactly 90 entries, one per
\* day index 0..89, and every field of every entry lies in [0,1]; every
\* subscore time series has exactly 90 values, each in [0,1].
C15_SeriesLengthAndRange ==
    /\ \A f \in Fields(pentadicLiteral) : InUnitInterval(pentadicLiteral[f])
    /\ \A f \in Fields(invariantsLiteral) : InUnitInterval(invariantsLiteral[f])
    /\ pushed.defined => InUnitInterval(pushed.value)
    /\ (genpc = "systems") =>
          /\ lengths.invariantSeries = genDay
          /\ lengths.pentadicSeries \in {genDay, genDay + 1}
          /\ genDay <= 90
    /\ (genpc = "timeSeries") => lengths.series = genDay /\ genDay <= 90
    /\ (genpc = "returned" /\ genSubscore = 0) =>
          lengths.pentadicSeries = 90 /\ lengths.invariantSeries = 90
    /\ (genpc = "returned" /\ genSubscore > 0) => returned.timeSeries = 90

C15_Witness ==
    /\ genpc = "returned"
    /\ system = "gamma"
    /\ genSubscore = 0
    /\ lengths.pentadicSeries = 90
    /\ lengths.invariantSeries = 90

Down(x) == x \div (Unit \div One)
Up(x) == (x + (Unit \div One) - 1) \div (Unit \div One)

\* The profiles on the hundredths grid that enclose a generated profile in
\* severity and scope, the two fields classifyGlyphShape reads.  Area and
\* aspect ratio are monotone in both, so a label shared by all of them is
\* the label of the profile.
Enclosing(profile) ==
    {[f \in ProfileFields |->
        IF f = "severity" THEN sv ELSE IF f = "scope" THEN sc ELSE Down(profile[f])] :
        sv \in {Down(profile.severity), Up(profile.severity)},
        sc \in {Down(profile.scope), Up(profile.scope)}}

\* C20: on the default day, index 89, classifyGlyphShape returns compact for
\* alpha's profile, large for beta's and tall-narrow for gamma's, whatever
\* the random draws.
C20_AdvertisedShapes ==
    (genpc = "systems" /\ genDay = 89 /\ Complete(pentadicOrder, pentadicLiteral)) =>
        \A profile \in Enclosing(pentadicLiteral) :
            classifyGlyphShape(profile) =
                CASE system = "alpha" -> "compact"
                  [] system = "beta" -> "large"
                  [] system = "gamma" -> "tall-narrow"

C20_Witness ==
    /\ genpc = "systems" /\ genDay = 89 /\ system = "gamma"
    /\ Complete(pentadicOrder, pentadicLiteral)
    /\ pentadicLiteral.severity = 507425
    /\ pentadicLiteral.scope = 329915
    /\ \A profile \in Enclosing(pentadicLiteral) :
          classifyGlyphShape(profile) = "tall-narrow"

---------------------------------------------------------------------------
(* Playback *)

\* C16: while playback is not active no timer tick changes the day.  Once
\* isPlaying is false (after toggle, jump to start or end, system change) no
\* interval is left installed, so the next step is never a tick and the day
\* changes only by an explicit user action.
C16_NoTickWhilePaused ==
    /\ [](~isPlaying => timers = {})
    /\ [][(~isPlaying) =>
            /\ lastEvent'.name # "tick"
            /\ (currentDay' # currentDay) =>
                  lastEvent'.name \in {"handleSliderChange", "stepBackward", "stepForward",
                                       "jumpToStart", "jumpToEnd", "handleSystemChange",
                                       "sparklineClick", "filmstripClick"}]_vars

C16_Witness ==
    /\ ~isPlaying
    /\ lastEvent.name = "togglePlay"
    /\ currentDay = 3
    /\ timers = {}

\* C17: at every moment at most one playback timer is active.  Through any
\* interleaving of play, pause, speed change, scrub, step and tick the
\* installed interval is cleared before another is installed, the one
\* interval is the one intervalRef designates, and a tick changes the day
\* index and nothing else of the state.
C17_AtMostOneTimer ==
    /\ [](Cardinality(timers) <= 1 /\ \A t \in timers : t.isRef /\ t.day = currentDay)
    /\ [][(lastEvent'.name = "tick") =>
            UNCHANGED <<selectedSystemId, isPlaying, viewMode, selectedDimension,
                        selectedInvariant, timelineMode, comparisonDayA,
                        comparisonDayB, speed>>]_vars

C17_Witness ==
    /\ isPlaying
    /\ lastEvent.name = "tick"
    /\ speed = 400
    /\ currentDay = 0
    /\ timers = {[day |-> 0, intervalMs |-> 50, isRef |-> TRUE]}

---------------------------------------------------------------------------
(* Drill-down *)

\* C19: the drill-down flow is Layer A -> Layer B -> Layer C.  Clicking a
\* dimension d gives the drill-down view with d selected and no invariant
\* (invariant panel, explainer context 'invariant'); selecting an invariant i
\* then keeps d and selects i (subscore panel in place of the invariant
\* panel, explainer context 'subscore'); 'back to invariants' returns to the
\* invariant panel of the same d; 'back to glyph' returns to the standard
\* view with both selections cleared.
C19_DrillDownFlow ==
    [][/\ (lastEvent'.name = "handleDimensionClick") =>
            /\ viewMode' = "drilldown"
            /\ selectedDimension' = lastEvent'.arg
            /\ selectedInvariant' = "null"
            /\ drillDownPanel' = "InvariantPanel"
            /\ explainerContext' = "invariant"
       /\ (lastEvent'.name = "handleInvariantSelect") =>
            /\ selectedDimension # "null"
            /\ selectedDimension' = selectedDimension
            /\ selectedInvariant' = lastEvent'.arg
            /\ viewMode' = "drilldown"
            /\ drillDownPanel' = "SubscorePanel"
            /\ explainerContext' = "subscore"
       /\ (lastEvent'.name = "handleBackToInvariants") =>
            /\ selectedDimension' = selectedDimension
            /\ selectedInvariant' = "null"
            /\ drillDownPanel' = "InvariantPanel"
            /\ explainerContext' = "invariant"
       /\ (lastEvent'.name = "handleBackToGlyph") =>
            /\ viewMode' = "standard"
            /\ selectedDimension' = "null"
            /\ selectedInvariant' = "null"
            /\ explainerContext' = "glyph"]_vars

C19_Witness ==
    /\ lastEvent = EventOn("handleInvariantSelect", "feedbackLatency")
    /\ viewMode = "drilldown"
    /\ selectedDimension = "severity"
    /\ selectedInvariant = "feedbackLatency"
    /\ drillDownPanel = "SubscorePanel"
    /\ explainerContext = "subscore"

---------------------------------------------------------------------------
(* Glow pulse trigger *)

\* C21: under the default configuration the glow pulse is triggered exactly
\* when correlation > 0.6; at correlation exactly 0.6 there is no pulse.
C21_PulseAboveThreshold ==
    (Returned("computeGlyphGeometry") /\ args.config = EmptyConfig) =>
        (result.shouldPulse <=> (args.profile.correlation > 60))

---------------------------------------------------------------------------
(* Filmstrip sampling *)

\* C22: for the 90-day series and the default sample count of 15 every two
\* consecutive sampled day indices are separated by the same number of days.
C22_ConstantSpacing ==
    (Returned("Timeline") /\ args.length = Days
                          /\ args.sampleCount = DefaultSampleCount) =>
        LET indices == result.sampleIndices
        IN  \A i \in 1..(Len(indices) - 1) :
                indices[i + 1] - indices[i] = indices[2] - indices[1]

\* C30: for a series of length n and 2 <= k <= n samples the sample indices
\* are strictly increasing integers of [0, n-1], the first is 0, the last is
\* n-1, and for any selected day exactly one sample is marked as selected:
\* the nearest one, the earlier one on a tie.
C30_SamplesSpanSeries ==
    (Returned("Timeline") /\ args.sampleCount <= args.length) =>
        LET indices == result.sampleIndices
            nearest == result.nearestSampleIndex
            d == args.selectedDay
        IN  /\ Len(indices) = args.sampleCount
            /\ \A i \in 1..Len(indices) : indices[i] \in 0..(args.length - 1)
            /\ \A i \in 1..(Len(indices) - 1) : indices[i] < indices[i + 1]
            /\ indices[1] = 0
            /\ indices[Len(indices)] = args.length - 1
            /\ Cardinality({j \in 1..Len(indices) : result.isSelected[j]}) = 1
            /\ \A j \in 1..Len(indices) :
                  /\ result.isSelected[j] <=> indices[j] = nearest
                  /\ Abs(nearest - d) <= Abs(indices[j] - d)
                  /\ (Abs(nearest - d) = Abs(indices[j] - d)) => nearest <= indices[j]

\* Day 16 is three days from the samples 13 and 19: the earlier one is marked.
C30_Witness ==
    /\ Returned("Timeline")
    /\ args = [length |-> Days, sampleCount |-> DefaultSampleCount, selectedDay |-> 16]
    /\ result.sampleIndices = <<0, 6, 13, 19, 25, 32, 38, 45, 51, 57, 64, 70, 76, 83, 89>>
    /\ result.nearestSampleIndex = 13
    /\ result.isSelected[3] /\ ~result.isSelected[4]

---------------------------------------------------------------------------
(* Day index *)

\* C23: after any sequence of timer ticks, steps, jumps, slider scrubs,
\* sparkline clicks, filmstrip clicks, system changes and view-mode changes
\* currentDay is an integer in [0, 89], an index of every 90-day series; a
\* sparkline click that maps outside [0, 89] leaves the day unchanged, and a
\* click that maps inside selects the day it maps to.
C23_DayInBounds ==
    /\ [](currentDay \in 0..(Days - 1))
    /\ [][(lastEvent'.name = "sparklineClick") =>
            LET day == clickedDay(lastEvent'.x, Days)
            IN  currentDay' = IF day \in 0..(Days - 1) THEN day ELSE currentDay]_vars

\* A click 2 pixels right of the chart maps to day 90 and is ignored.
C23_Witness ==
    /\ lastEvent = EventAt("sparklineClick", "none", chartWidth + 2)
    /\ clickedDay(lastEvent.x, Days) = Days
    /\ currentDay = 45

---------------------------------------------------------------------------
(* Selection state *)

\* C24: in every reachable App state a selected invariant implies a selected
\* dimension, and the standard view implies that neither is selected; through
\* any sequence of dimension click, invariant select, back to glyph, back to
\* invariants, Standard, Drill-Down, Compare and system change.
C24_SelectionConsistent ==
    /\ (selectedInvariant # "null") => (selectedDimension # "null")
    /\ (viewMode = "standard") =>
          (selectedDimension = "null" /\ selectedInvariant = "null")

\* The Compare button pressed with an invariant selected: the selection stays.
C24_Witness ==
    /\ lastEvent = Event("viewComparison")
    /\ viewMode = "comparison"
    /\ selectedDimension = "scope"
    /\ selectedInvariant = "connectivityDensity"

---------------------------------------------------------------------------
(* Unattended playback *)

\* C25: while playback is active and the user gives no input each tick
\* advances the day by exactly one, the tick on the last day wraps to day 0,
\* and no tick stops playback: an interval stays installed, and under fair
\* ticking every day index 0..89 is shown again and again.
C25_PlaybackCycles ==
    /\ [](isPlaying => timers # {})
    /\ [][(lastEvent'.name = "tick") =>
            /\ isPlaying /\ isPlaying'
            /\ currentDay' = IF currentDay = TotalDays - 1 THEN 0 ELSE currentDay + 1]_vars
    /\ [][isPlaying => isPlaying']_vars
    /\ \A d \in 0..(TotalDays - 1) : isPlaying ~> (isPlaying /\ currentDay = d)

\* Playback started on day 89 has wrapped and gone on to day 1.
C25_Witness ==
    /\ isPlaying
    /\ lastEvent = Event("tick")
    /\ currentDay = 1
    /\ speed = 200
    /\ selectedSystemId = "gamma"

---------------------------------------------------------------------------
(* Manual stepping *)

\* C26: manual stepping saturates and does not touch the play state:
\* stepBackward on day 0 leaves the day at 0, stepForward on day totalDays-1
\* leaves it at totalDays-1, and neither changes isPlaying or the speed;
\* jumpToStart and jumpToEnd set the day to 0 and to totalDays-1 and leave
\* isPlaying false.
C26_SteppingSaturates ==
    [][/\ (lastEvent'.name = "stepBackward") =>
            /\ currentDay' = IF currentDay = 0 THEN 0 ELSE currentDay - 1
            /\ isPlaying' = isPlaying /\ speed' = speed
       /\ (lastEvent'.name = "stepForward") =>
            /\ currentDay' = IF currentDay = TotalDays - 1
                             THEN TotalDays - 1 ELSE currentDay + 1
            /\ isPlaying' = isPlaying /\ speed' = speed
       /\ (lastEvent'.name = "jumpToStart") => (currentDay' = 0 /\ ~isPlaying')
       /\ (lastEvent'.name = "jumpToEnd") =>
            (currentDay' = TotalDays - 1 /\ ~isPlaying')]_vars

\* Stepping forward on the last day during playback: still day 89, still playing.
C26_Witness ==
    /\ lastEvent = Event("stepForward")
    /\ currentDay = TotalDays - 1
    /\ isPlaying
    /\ speed = 50
    /\ timers = {[day |-> TotalDays - 1, intervalMs |-> 400, isRef |-> TRUE]}

---------------------------------------------------------------------------
(* Comparison days *)

\* C28: for every value entered into either day field of ComparisonSelector,
\* empty or non-numeric text and numbers below 1 or above totalDays included,
\* the day passed on is an integer in [0, totalDays-1]: comparisonDayA and
\* comparisonDayB always index a profile of the 90-day series.
C28_ComparisonDaysInRange ==
    /\ ~comparisonDayA.nan /\ comparisonDayA.value \in 0..(TotalDays - 1)
    /\ ~comparisonDayB.nan /\ comparisonDayB.value \in 0..(TotalDays - 1)

---------------------------------------------------------------------------
(* System selection *)

---------------------------------------------------------------------------
(* Drift of system beta *)

\* C29: in generateSystemBeta driftT stays within [0,1] on every day 0..89,
\* does not decrease from one day to the next, is 0 on day 0 and 1 on day 89,
\* so that without noise and perturbation the profile of day 0 is the start
\* profile and the profile of day 89 is the end profile.
C29_DriftSpansUnitInterval ==
    (system = "beta" /\ genpc = "systems" /\ genDay < Days) =>
        LET driftT == beta_driftT(genDay)
            drifted == [f \in DOMAIN beta_startProfile |->
                           lerp(beta_startProfile[f], beta_endProfile[f], driftT)]
        IN  /\ InUnitInterval(driftT)
            /\ (genDay > 0) => (beta_driftT(genDay - 1) <= driftT)
            /\ (genDay = 0) =>
                  /\ driftT = 0
                  /\ \A f \in DOMAIN drifted : drifted[f] = Lit(beta_startProfile[f])
            /\ (genDay = Days - 1) =>
                  /\ driftT = Unit
                  /\ \A f \in DOMAIN drifted : drifted[f] = Lit(beta_endProfile[f])

====
